---- MODULE Spec2Model ----
(***************************************************************************)
(* A model of the threat-intelligence IOC pipeline: normalization,         *)
(* deduplication with metadata merge, enrichment and persistence.          *)
(*                                                                         *)
(* Python strings that the code inspects character by character (the IOC   *)
(* value) are sequences of one-character strings.  Python dicts are        *)
(* functions whose DOMAIN is the set of keys present, so that an absent    *)
(* key differs from a key holding a default.  Python objects that are      *)
(* shared between lists and mutated in place live in `heap`; the lists of  *)
(* the pipeline hold references (indices into heap).                       *)
(*                                                                         *)
(* Confidence scores are exact rationals in units of 1/One; the rounding   *)
(* of Python floats (0.7 + 0.1 = 0.7999999999999999) is not modelled.      *)
(***************************************************************************)
EXTENDS Integers, Sequences, FiniteSets, TLC

VARIABLES
    pc,                 \* position of the running operation: the stage to run next
    clock,              \* datetime.utcnow(), as a counter
    raw_iocs,           \* run_pipeline: raw_iocs
    ingestion_stats,    \* run_pipeline: ingestion_stats
    heap,               \* the IOC dict objects created by normalize_iocs
    normalized_iocs,    \* run_pipeline: normalized_iocs (references)
    deduplicated_iocs,  \* run_pipeline: deduplicated_iocs (references)
    enriched_iocs,      \* run_pipeline: enriched_iocs (references)
    filtered_iocs,      \* run_pipeline: filtered_iocs (references)
    classified_iocs,    \* run_pipeline: classified_iocs (references)
    result,             \* the dict run_pipeline returns
    disk,               \* data/processed_iocs.json, its backups, data/processing_stats.json
    trace,              \* history: the stages the run has executed, in order
    pre,                \* history: heap and list the last operation started from
    retained_ioc,       \* merge_duplicate_metadata: the retained dict (existing_ioc)
    pending             \* references to the duplicates not merged yet

mergeVars == <<retained_ioc, pending>>

stageVars == <<enriched_iocs, filtered_iocs, classified_iocs>>

outVars == <<ingestion_stats, result, disk, trace>>

vars == <<pc, clock, raw_iocs, heap, normalized_iocs, deduplicated_iocs, pre, mergeVars,
          stageVars, outVars>>

-----------------------------------------------------------------------------
(* Bounds of the model *)

\* longest list of raw records handed to normalize_iocs / deduplicate_iocs
MaxLen == 3

-----------------------------------------------------------------------------
(* Python dict and list helpers *)

Has(d, k) == k \in DOMAIN d

Get(d, k, default) == IF k \in DOMAIN d THEN d[k] ELSE default

Put(d, k, v) == [x \in (DOMAIN d) \cup {k} |-> IF x = k THEN v ELSE d[x]]

EmptyDict == [x \in {} |-> 0]

Range(s) == {s[i] : i \in DOMAIN s}

Max(a, b) == IF a >= b THEN a ELSE b

Min(a, b) == IF a <= b THEN a ELSE b

\* `needle in haystack` for Python strings
Contains(haystack, needle) ==
    \E i \in 0..(Len(haystack) - Len(needle)) :
        \A j \in 1..Len(needle) : haystack[i + j] = needle[j]

\* the value 1.0 of a score, in the model's units
One == 3 * 1000

-----------------------------------------------------------------------------
(* Strings of the program *)

IpA == <<"2","0","3",".","0",".","1","1","3",".","5">>
CidrA == <<"1","9","8",".","5","1",".","1","0","0",".","0","/","2","4">>
UrlMalware == <<"h","t","t","p",":","/","/","m","a","l","w","a","r","e","-","u","p","d","a","t","e","-","c","r","a","c","k",".","t","k","/","f","i","l","e",".","e","x","e">>

\* the characters of the type and source names, for f-string concatenation
Chars(s) ==
    CASE s = "ip" -> <<"i","p">>
      [] s = "url" -> <<"u","r","l">>
      [] s = "blocklist" -> <<"b","l","o","c","k","l","i","s","t">>
      [] s = "spamhaus" -> <<"s","p","a","m","h","a","u","s">>
      [] s = "digitalside" -> <<"d","i","g","i","t","a","l","s","i","d","e">>
      [] s = "other" -> <<"o","t","h","e","r">>

LowerChar(c) ==
    CASE c = "A" -> "a" [] c = "B" -> "b" [] c = "C" -> "c" [] c = "D" -> "d"
      [] c = "E" -> "e" [] c = "F" -> "f" [] c = "G" -> "g" [] c = "H" -> "h"
      [] c = "I" -> "i" [] c = "J" -> "j" [] c = "K" -> "k" [] c = "L" -> "l"
      [] c = "M" -> "m" [] c = "N" -> "n" [] c = "O" -> "o" [] c = "P" -> "p"
      [] c = "Q" -> "q" [] c = "R" -> "r" [] c = "S" -> "s" [] c = "T" -> "t"
      [] c = "U" -> "u" [] c = "V" -> "v" [] c = "W" -> "w" [] c = "X" -> "x"
      [] c = "Y" -> "y" [] c = "Z" -> "z" [] OTHER -> c

\* str.lower()
Lower(s) == [i \in 1..Len(s) |-> LowerChar(s[i])]

-----------------------------------------------------------------------------
(* ingestion/normalize.py *)

\* hashlib.md5(...).hexdigest(): the digest of a string, taken as injective
Md5(s) == <<"md5", s>>

\* seeded fault: the id also depends on the line the record was read from
generate_ioc_id_by_line(ioc) ==
    <<"md5", ioc.value \o <<"-">> \o Chars(ioc.type) \o <<"-">> \o Chars(ioc.source),
      ioc.line_number>>

generate_ioc_id(ioc) ==
    Md5(ioc.value \o <<"-">> \o Chars(ioc.type) \o <<"-">> \o Chars(ioc.source))

source_confidence(source) ==
    CASE source = "blocklist" -> (8 * One) \div 10
      [] source = "spamhaus" -> (9 * One) \div 10
      [] source = "digitalside" -> (7 * One) \div 10
      [] OTHER -> (5 * One) \div 10

suspicious_extensions == {<<".","e","x","e">>, <<".","z","i","p">>, <<".","r","a","r">>,
                          <<".","b","a","t">>, <<".","s","c","r">>}

calculate_confidence(ioc) ==
    LET base_score == source_confidence(ioc.source)
        adjusted ==
            IF ioc.type = "ip"
            THEN IF Contains(ioc.value, <<"/">>)
                 THEN base_score + (5 * One) \div 100
                 ELSE base_score
            ELSE IF ioc.type = "url"
                 THEN IF \E ext \in suspicious_extensions : Contains(Lower(ioc.value), ext)
                      THEN base_score + One \div 10
                      ELSE base_score
                 ELSE base_score
    IN Min(adjusted, One)

\* the keys extract_metadata reads with ioc.get; a key holding None is an absent key
metadata_keys(ioc) ==
    {"raw_data", "line_number"}
        \cup (IF ioc.source = "spamhaus" THEN {"sbl_reference"}
              ELSE IF ioc.source = "digitalside" /\ ioc.type = "url"
                   THEN {"domain", "path", "scheme"}
                   ELSE {})

extract_metadata(ioc) == [k \in metadata_keys(ioc) \cap DOMAIN ioc |-> ioc[k]]

\* ioc['value'], ioc['type'], ioc['source'] raise KeyError when absent
Normalizable(ioc) == {"value", "type", "source"} \subseteq DOMAIN ioc

normalize_one(ioc, current_time) ==
    [id |-> generate_ioc_id(ioc),
     value |-> ioc.value,
     type |-> ioc.type,
     source |-> ioc.source,
     source_url |-> Get(ioc, "source_url", "None"),
     category |-> Get(ioc, "category", "None"),
     first_seen |-> current_time,
     last_updated |-> current_time,
     confidence |-> calculate_confidence(ioc),
     metadata |-> extract_metadata(ioc)]

\* seeded fault: one record that cannot be normalized fails the whole batch
normalize_iocs_failing(raw, current_time) ==
    IF \A i \in DOMAIN raw : Normalizable(raw[i])
    THEN [i \in DOMAIN raw |-> normalize_one(raw[i], current_time)]
    ELSE <<>>

RECURSIVE normalize_iocs(_, _)
normalize_iocs(raw, current_time) ==
    IF raw = <<>> THEN <<>>
    ELSE IF Normalizable(Head(raw))
         THEN <<normalize_one(Head(raw), current_time)>> \o normalize_iocs(Tail(raw), current_time)
         ELSE normalize_iocs(Tail(raw), current_time)

-----------------------------------------------------------------------------
(* enrichment/deduplicate.py *)

\* seeded fault: the key leaves out the type
dedup_key_value_only(ioc) == ioc.value

\* f"{ioc['value']}:{ioc['type']}"
dedup_key(ioc) == ioc.value \o <<":">> \o Chars(ioc.type)

merge_sources(existing_ioc, duplicate_ioc) ==
    LET existing_sources == Get(existing_ioc, "sources", <<existing_ioc.source>>)
    IN IF duplicate_ioc.source \notin Range(existing_sources)
       THEN Put(existing_ioc, "sources", Append(existing_sources, duplicate_ioc.source))
       ELSE existing_ioc

\* seeded fault: confidences of duplicates add up
merge_confidence_sum(existing_ioc, duplicate_ioc) ==
    Put(existing_ioc, "confidence",
        Get(existing_ioc, "confidence", 0) + Get(duplicate_ioc, "confidence", 0))

\* seeded fault: the duplicate's confidence always replaces the retained one
merge_confidence_last_wins(existing_ioc, duplicate_ioc) ==
    Put(existing_ioc, "confidence", Get(duplicate_ioc, "confidence", 0))

merge_confidence(existing_ioc, duplicate_ioc) ==
    IF Get(duplicate_ioc, "confidence", 0) > Get(existing_ioc, "confidence", 0)
    THEN Put(existing_ioc, "confidence", duplicate_ioc.confidence)
    ELSE existing_ioc

\* seeded fault: existing['enrichment'].update(duplicate['enrichment'])
merge_enrichment_overwrite(existing_ioc, duplicate_ioc) ==
    IF Has(duplicate_ioc, "enrichment")
    THEN Put(existing_ioc, "enrichment",
             duplicate_ioc.enrichment @@ Get(existing_ioc, "enrichment", EmptyDict))
    ELSE existing_ioc

merge_enrichment(existing_ioc, duplicate_ioc) ==
    IF Has(duplicate_ioc, "enrichment")
    THEN LET mine == Get(existing_ioc, "enrichment", EmptyDict)
             theirs == duplicate_ioc.enrichment
         IN Put(existing_ioc, "enrichment",
                [k \in (DOMAIN mine) \cup (DOMAIN theirs) |->
                    IF k \in DOMAIN mine THEN mine[k] ELSE theirs[k]])
    ELSE existing_ioc

merge_duplicate_count(existing_ioc) ==
    Put(existing_ioc, "duplicate_count", Get(existing_ioc, "duplicate_count", 1) + 1)

\* seeded fault: existing_ioc.update(duplicate_ioc) before counting
merge_update_from_duplicate(existing_ioc, duplicate_ioc) ==
    merge_duplicate_count(duplicate_ioc @@ existing_ioc)

\* the retained dict after merge_duplicate_metadata(existing_ioc, duplicate_ioc)
merge_duplicate_metadata(existing_ioc, duplicate_ioc) ==
    merge_duplicate_count(
        merge_enrichment(
            merge_confidence(
                merge_sources(existing_ioc, duplicate_ioc),
                duplicate_ioc),
            duplicate_ioc))

\* next((item for item in deduplicated if key(item) == key), None)
FirstWithKey(h, deduplicated, key) ==
    LET hits == {j \in DOMAIN deduplicated : dedup_key(h[deduplicated[j]]) = key}
    IN deduplicated[CHOOSE j \in hits : \A k \in hits : j <= k]

\* the for loop of deduplicate_iocs over the references iocs[i..]
RECURSIVE dedup_loop(_, _, _, _, _)
dedup_loop(h, iocs, i, seen_keys, deduplicated) ==
    IF i > Len(iocs) THEN [heap |-> h, out |-> deduplicated]
    ELSE LET ioc == iocs[i]
             key == dedup_key(h[ioc])
         IN IF key \notin seen_keys
            THEN dedup_loop(h, iocs, i + 1, seen_keys \cup {key}, Append(deduplicated, ioc))
            ELSE LET existing_ioc == FirstWithKey(h, deduplicated, key)
                 IN dedup_loop(
                        [h EXCEPT ![existing_ioc] = merge_duplicate_metadata(h[existing_ioc], h[ioc])],
                        iocs, i + 1, seen_keys, deduplicated)

\* seeded fault: duplicate_count is also counted up for the first record of a key
RECURSIVE dedup_loop_counting(_, _, _, _, _)
dedup_loop_counting(h, iocs, i, seen_keys, deduplicated) ==
    IF i > Len(iocs) THEN [heap |-> h, out |-> deduplicated]
    ELSE LET ioc == iocs[i]
             key == dedup_key(h[ioc])
         IN IF key \notin seen_keys
            THEN dedup_loop_counting(
                     [h EXCEPT ![ioc] = Put(@, "duplicate_count", Get(@, "duplicate_count", 0) + 1)],
                     iocs, i + 1, seen_keys \cup {key}, Append(deduplicated, ioc))
            ELSE LET existing_ioc == FirstWithKey(h, deduplicated, key)
                 IN dedup_loop_counting(
                        [h EXCEPT ![existing_ioc] = merge_duplicate_metadata(h[existing_ioc], h[ioc])],
                        iocs, i + 1, seen_keys, deduplicated)

deduplicate_iocs_counting(h, iocs) == dedup_loop_counting(h, iocs, 1, {}, <<>>)

\* deduplicate_iocs(iocs): the list returned and the heap it leaves
deduplicate_iocs(h, iocs) == dedup_loop(h, iocs, 1, {}, <<>>)

-----------------------------------------------------------------------------
(* Character classes and string helpers *)

Digits == {"0","1","2","3","4","5","6","7","8","9"}

LowerLetters == {"a","b","c","d","e","f","g","h","i","j","k","l","m",
                 "n","o","p","q","r","s","t","u","v","w","x","y","z"}

UpperLetters == {"A","B","C","D","E","F","G","H","I","J","K","L","M",
                 "N","O","P","Q","R","S","T","U","V","W","X","Y","Z"}

\* \w of Python's re for ASCII text
IsWordChar(c) == c \in Digits \cup LowerLetters \cup UpperLetters \cup {"_"}

\* needle occurs in s starting at index i
StartsAt(s, i, needle) ==
    /\ i >= 1
    /\ i + Len(needle) - 1 <= Len(s)
    /\ \A j \in 1..Len(needle) : s[i + j - 1] = needle[j]

\* s[i .. i+n-1] exists and consists of digits
DigitsAt(s, i, n) == i >= 1 /\ i + n - 1 <= Len(s) /\ \A j \in i..(i + n - 1) : s[j] \in Digits

\* str.find for a set of delimiter characters, from index `from`: 0 when none
FindAny(s, chars, from) ==
    LET hits == {i \in from..Len(s) : s[i] \in chars}
    IN IF hits = {} THEN 0 ELSE CHOOSE i \in hits : \A j \in hits : i <= j

DigitValue(c) ==
    CASE c = "0" -> 0 [] c = "1" -> 1 [] c = "2" -> 2 [] c = "3" -> 3 [] c = "4" -> 4
      [] c = "5" -> 5 [] c = "6" -> 6 [] c = "7" -> 7 [] c = "8" -> 8 [] c = "9" -> 9

\* int(text) for a string of digits
RECURSIVE ParseInt(_)
ParseInt(text) ==
    IF text = <<>> THEN 0
    ELSE 10 * ParseInt(SubSeq(text, 1, Len(text) - 1)) + DigitValue(text[Len(text)])

-----------------------------------------------------------------------------
(* urllib.parse.urlparse, for the attributes the code reads: scheme, netloc,   *)
(* path, port.  The params split at ';' is left out.                           *)

SchemeChars == LowerLetters \cup UpperLetters \cup Digits \cup {"+", "-", "."}

\* the index of the ':' that ends the scheme, 0 when the URL has no scheme
SchemeEnd(url) ==
    LET i == FindAny(url, {":"}, 1)
    IN IF i > 1 /\ url[1] \in LowerLetters \cup UpperLetters
          /\ \A j \in 1..(i - 1) : url[j] \in SchemeChars
       THEN i ELSE 0

urlparse(url) ==
    LET i == SchemeEnd(url)
        rest == SubSeq(url, i + 1, Len(url))
        has_netloc == StartsAt(rest, 1, <<"/", "/">>)
        stop == IF has_netloc THEN FindAny(rest, {"/", "?", "#"}, 3) ELSE 0
        netloc_end == IF ~has_netloc THEN 0 ELSE IF stop = 0 THEN Len(rest) ELSE stop - 1
        tail == SubSeq(rest, netloc_end + 1, Len(rest))
        cut == FindAny(tail, {"?", "#"}, 1)
    IN [scheme |-> Lower(SubSeq(url, 1, i - 1)),
        netloc |-> IF has_netloc THEN SubSeq(rest, 3, netloc_end) ELSE <<>>,
        path |-> IF cut = 0 THEN tail ELSE SubSeq(tail, 1, cut - 1)]

\* the text after the first ':' of the host part of netloc (brackets left out)
PortText(netloc) ==
    LET ats == {i \in 1..Len(netloc) : netloc[i] = "@"}
        start == IF ats = {} THEN 1 ELSE (CHOOSE i \in ats : \A j \in ats : i >= j) + 1
        hostinfo == SubSeq(netloc, start, Len(netloc))
        colon == FindAny(hostinfo, {":"}, 1)
    IN IF colon = 0 THEN <<>> ELSE SubSeq(hostinfo, colon + 1, Len(hostinfo))

\* parsed.port raises ValueError
PortRaises(netloc) ==
    LET text == PortText(netloc)
    IN text # <<>> /\ (~DigitsAt(text, 1, Len(text)) \/ ParseInt(text) > 65535)

\* parsed.port: 0 stands for None (`parsed.port and ...` treats both alike)
Port(netloc) == IF PortText(netloc) = <<>> THEN 0 ELSE ParseInt(PortText(netloc))

-----------------------------------------------------------------------------
(* enrichment/filter_urls.py *)

SUSPICIOUS_EXTENSIONS ==
    <<<<".","e","x","e">>,
      <<".","b","a","t">>,
      <<".","c","m","d">>,
      <<".","c","o","m">>,
      <<".","p","i","f">>,
      <<".","s","c","r">>,
      <<".","v","b","s">>,
      <<".","j","s">>,
      <<".","j","a","r">>,
      <<".","z","i","p">>,
      <<".","r","a","r">>,
      <<".","7","z">>,
      <<".","t","a","r">>,
      <<".","g","z">>,
      <<".","b","z","2">>,
      <<".","m","s","i">>,
      <<".","d","e","b">>,
      <<".","r","p","m">>,
      <<".","d","m","g">>,
      <<".","p","k","g">>,
      <<".","a","p","p">>>>

\* r'[0-9]{1,3}\.[0-9]{1,3}\.[0-9]{1,3}\.[0-9]{1,3}', searched anywhere
PatternIpAddress(s) ==
    \E i \in 1..Len(s), a \in 1..3, b \in 1..3 :
        /\ DigitsAt(s, i, 1)
        /\ StartsAt(s, i + 1, <<".">>)
        /\ DigitsAt(s, i + 2, a)
        /\ StartsAt(s, i + 2 + a, <<".">>)
        /\ DigitsAt(s, i + 3 + a, b)
        /\ StartsAt(s, i + 3 + a + b, <<".">>)
        /\ DigitsAt(s, i + 4 + a + b, 1)

\* r'[a-z0-9]{10,}\.tk|\.ml|\.ga|\.cf': ten alphanumerics before ".tk", or one of
\* the other three anywhere
PatternSuspiciousTld(s) ==
    \/ \E i \in 1..Len(s) :
          /\ StartsAt(s, i, <<".", "t", "k">>)
          /\ i > 10
          /\ \A j \in (i - 10)..(i - 1) : s[j] \in LowerLetters \cup Digits
    \/ Contains(s, <<".", "m", "l">>)
    \/ Contains(s, <<".", "g", "a">>)
    \/ Contains(s, <<".", "c", "f">>)

\* r'bit\.ly|tinyurl|t\.co|goo\.gl'
PatternUrlShortener(s) ==
    \/ Contains(s, <<"b","i","t",".","l","y">>)
    \/ Contains(s, <<"t","i","n","y","u","r","l">>)
    \/ Contains(s, <<"t",".","c","o">>)
    \/ Contains(s, <<"g","o","o",".","g","l">>)

\* r'download|install|update|urgent|click|free'
PatternSuspiciousKeywords(s) ==
    \E w \in {<<"d","o","w","n","l","o","a","d">>, <<"i","n","s","t","a","l","l">>,
              <<"u","p","d","a","t","e">>, <<"u","r","g","e","n","t">>,
              <<"c","l","i","c","k">>, <<"f","r","e","e">>} : Contains(s, w)

\* how many of SUSPICIOUS_PATTERNS match the lower-cased URL
PatternCount(url_lower) ==
    (IF PatternIpAddress(url_lower) THEN 1 ELSE 0)
    + (IF PatternSuspiciousTld(url_lower) THEN 1 ELSE 0)
    + (IF PatternUrlShortener(url_lower) THEN 1 ELSE 0)
    + (IF PatternSuspiciousKeywords(url_lower) THEN 1 ELSE 0)

\* re.match(r'^[0-9.]+$', domain)
IsIpDomain(domain) == domain # <<>> /\ \A i \in 1..Len(domain) : domain[i] \in Digits \cup {"."}

SuspiciousPorts == {8080, 8443, 9999}

\* the additions made inside the try block of calculate_url_suspicion
ParsedSignals(url) ==
    LET parsed == urlparse(url)
        domain == Lower(parsed.netloc)
        path == Lower(parsed.path)
    IN (IF Len(domain) > 30 /\ \E i \in 1..Len(domain) : domain[i] \in Digits
        THEN (2 * One) \div 10 ELSE 0)
       + (IF IsIpDomain(domain) THEN (4 * One) \div 10 ELSE 0)
       + (IF PortRaises(parsed.netloc)
          THEN (3 * One) \div 10
          ELSE (IF Port(parsed.netloc) \in SuspiciousPorts THEN One \div 10 ELSE 0)
               + (IF Len(url) > 200 THEN One \div 10 ELSE 0)
               + (IF \/ Contains(path, <<"/","a","d","m","i","n">>)
                     \/ Contains(path, <<"/","w","p","-","a","d","m","i","n">>)
                     \/ Contains(path, <<"/","u","p","l","o","a","d">>)
                  THEN One \div 10 ELSE 0))

\* seeded fault: the extension loop without its break, 0.3 for every extension found
calculate_url_suspicion_every_extension(url) ==
    LET url_lower == Lower(url)
        found == {i \in DOMAIN SUSPICIOUS_EXTENSIONS :
                      Contains(url_lower, SUSPICIOUS_EXTENSIONS[i])}
        patterns == PatternCount(url_lower) * ((2 * One) \div 10)
    IN Min(Cardinality(found) * ((3 * One) \div 10) + patterns + ParsedSignals(url), One)

calculate_url_suspicion(url) ==
    LET url_lower == Lower(url)
        extension == IF \E i \in DOMAIN SUSPICIOUS_EXTENSIONS :
                           Contains(url_lower, SUSPICIOUS_EXTENSIONS[i])
                     THEN (3 * One) \div 10 ELSE 0
        patterns == PatternCount(url_lower) * ((2 * One) \div 10)
    IN Min(extension + patterns + ParsedSignals(url), One)

\* the tags of get_suspicious_indicators, in the order they are appended; a tag
\* "kind:detail" is the tuple <<kind, detail>>
get_suspicious_indicators(url) ==
    LET url_lower == Lower(url)
        parsed == urlparse(url)
        domain == Lower(parsed.netloc)
        exts == SelectSeq(SUSPICIOUS_EXTENSIONS, LAMBDA ext : Contains(url_lower, ext))
    IN [i \in 1..Len(exts) |-> <<"suspicious_extension", exts[i]>>]
       \o (IF PatternIpAddress(url_lower) THEN <<<<"pattern", "ip_address">>>> ELSE <<>>)
       \o (IF PatternSuspiciousTld(url_lower) THEN <<<<"pattern", "suspicious_tld">>>> ELSE <<>>)
       \o (IF PatternUrlShortener(url_lower) THEN <<<<"pattern", "url_shortener">>>> ELSE <<>>)
       \o (IF PatternSuspiciousKeywords(url_lower) THEN <<<<"pattern", "suspicious_keywords">>>> ELSE <<>>)
       \o (IF Len(domain) > 30 THEN <<<<"long_domain">>>> ELSE <<>>)
       \o (IF IsIpDomain(domain) THEN <<<<"ip_domain">>>> ELSE <<>>)
       \o (IF Len(url) > 200 THEN <<<<"long_url">>>> ELSE <<>>)
       \o (IF PortRaises(parsed.netloc) THEN <<<<"malformed_url">>>>
           ELSE IF Port(parsed.netloc) \in SuspiciousPorts
                THEN <<<<"suspicious_port", Port(parsed.netloc)>>>> ELSE <<>>)

high_priority_extensions == {<<".","e","x","e">>, <<".","z","i","p">>,
                             <<".","b","a","t">>, <<".","s","c","r">>}

\* seeded fault: a score of 0.4 is enough to keep the URL
should_keep_url_at_threshold(url, suspicion_score) ==
    LET url_lower == Lower(url)
    IN \/ \E ext \in high_priority_extensions : Contains(url_lower, ext)
       \/ suspicion_score >= (4 * One) \div 10
       \/ PatternIpAddress(url_lower)

should_keep_url(url, suspicion_score) ==
    LET url_lower == Lower(url)
    IN \/ \E ext \in high_priority_extensions : Contains(url_lower, ext)
       \/ suspicion_score > (4 * One) \div 10
       \/ PatternIpAddress(url_lower)

-----------------------------------------------------------------------------
(* enrichment/ml_classifier.py *)

MALICIOUS_KEYWORDS ==
    <<
      [keywords |-> <<<<"m","a","l","w","a","r","e">>, <<"v","i","r","u","s">>, <<"t","r","o","j","a","n">>, <<"r","a","n","s","o","m","w","a","r","e">>, <<"b","a","c","k","d","o","o","r">>, <<"k","e","y","l","o","g","g","e","r">>, <<"s","p","y","w","a","r","e">>>>,
       weight |-> (8 * One) \div 10],
      [keywords |-> <<<<"d","o","w","n","l","o","a","d">>, <<"i","n","s","t","a","l","l">>, <<"u","p","d","a","t","e">>, <<"c","r","a","c","k">>, <<"k","e","y","g","e","n">>, <<"a","c","t","i","v","a","t","o","r">>, <<"l","o","a","d","e","r">>>>,
       weight |-> (6 * One) \div 10],
      [keywords |-> <<<<"u","r","g","e","n","t">>, <<"i","m","m","e","d","i","a","t","e">>, <<"c","l","i","c","k">>, <<"v","e","r","i","f","y">>, <<"c","o","n","f","i","r","m">>, <<"e","x","p","i","r","e">>, <<"s","u","s","p","e","n","d">>>>,
       weight |-> (5 * One) \div 10],
      [keywords |-> <<<<"e","x","e">>, <<"z","i","p">>, <<"r","a","r">>, <<"b","a","t">>, <<"s","c","r">>, <<"j","a","r">>, <<"m","s","i">>>>,
       weight |-> (4 * One) \div 10],
      [keywords |-> <<<<"t","e","m","p">>, <<"t","e","s","t">>, <<"a","d","m","i","n">>, <<"r","o","o","t">>, <<"u","s","e","r">>, <<"g","u","e","s","t">>, <<"a","n","o","n","y","m","o","u","s">>>>,
       weight |-> (3 * One) \div 10]>>

BENIGN_KEYWORDS ==
    <<
      [keywords |-> <<<<"g","i","t","h","u","b">>, <<"m","i","c","r","o","s","o","f","t">>, <<"g","o","o","g","l","e">>, <<"a","m","a","z","o","n">>, <<"a","p","p","l","e">>, <<"f","a","c","e","b","o","o","k">>>>,
       weight |-> (-5 * One) \div 10],
      [keywords |-> <<<<"d","o","c","s">>, <<"h","e","l","p">>, <<"s","u","p","p","o","r","t">>, <<"m","a","n","u","a","l">>, <<"g","u","i","d","e">>, <<"t","u","t","o","r","i","a","l">>>>,
       weight |-> (-2 * One) \div 10]>>

\* len(pattern.findall(url)) for rf'\b{keyword}\b' with re.IGNORECASE
CountMatches(url, keyword) ==
    LET text == Lower(url)
    IN Cardinality({i \in 1..Len(text) :
           /\ StartsAt(text, i, keyword)
           /\ (i = 1 \/ ~IsWordChar(text[i - 1]))
           /\ (i + Len(keyword) > Len(text) \/ ~IsWordChar(text[i + Len(keyword)]))})

\* the sum of min(matches, 3) over the keywords of one category
RECURSIVE CappedMatches(_, _)
CappedMatches(url, keywords) ==
    IF keywords = <<>> THEN 0
    ELSE Min(CountMatches(url, Head(keywords)), 3) + CappedMatches(url, Tail(keywords))

\* URLClassifier._calculate_score over the compiled patterns of a keyword dict
RECURSIVE calculate_score(_, _)
calculate_score(url, categories) ==
    IF categories = <<>> THEN 0
    ELSE (Head(categories).weight * CappedMatches(url, Head(categories).keywords)) \div 3
         + calculate_score(url, Tail(categories))

\* URLClassifier.classify_url; of `features` only the length is kept
classify_url(url) ==
    LET malicious_score == calculate_score(url, MALICIOUS_KEYWORDS)
        benign_score == calculate_score(url, BENIGN_KEYWORDS)
        total_score == malicious_score + benign_score
        probability == Max(0, Min(One, (total_score + One) \div 2))
        is_suspicious == probability > One \div 2
    IN [is_suspicious |-> is_suspicious,
        probability |-> probability,
        malicious_score |-> malicious_score,
        benign_score |-> benign_score,
        features |-> [length |-> Len(url)],
        classification |-> IF is_suspicious THEN "suspicious" ELSE "benign"]

\* seeded fault: the classification replaces the enrichment dict
classify_one_replacing(ioc) ==
    IF ioc.type = "url"
    THEN Put(ioc, "enrichment", [ml_classification |-> classify_url(ioc.value)])
    ELSE ioc

\* seeded fault: the confidence boost applied whatever is_suspicious says
classify_one_boosting_always(ioc) ==
    IF ioc.type = "url"
    THEN LET classification == classify_url(ioc.value)
             enriched == Put(ioc, "enrichment",
                             Put(Get(ioc, "enrichment", EmptyDict),
                                 "ml_classification", classification))
             ml_boost == (classification.probability * 2) \div 10
         IN Put(enriched, "confidence",
                Min(One, Get(enriched, "confidence", One \div 2) + ml_boost))
    ELSE ioc

\* seeded fault: the type test of the loop left out, every record classified
classify_one_any_type(ioc) ==
    LET classification == classify_url(ioc.value)
        enriched == Put(ioc, "enrichment",
                        Put(Get(ioc, "enrichment", EmptyDict),
                            "ml_classification", classification))
    IN IF classification.is_suspicious
       THEN LET ml_boost == (classification.probability * 2) \div 10
            IN Put(enriched, "confidence",
                   Min(One, Get(enriched, "confidence", One \div 2) + ml_boost))
       ELSE enriched

\* the body of the loop of classify_url_iocs for one dict
classify_one(ioc) ==
    IF ioc.type = "url"
    THEN LET classification == classify_url(ioc.value)
             enriched == Put(ioc, "enrichment",
                             Put(Get(ioc, "enrichment", EmptyDict),
                                 "ml_classification", classification))
         IN IF classification.is_suspicious
            THEN LET ml_boost == (classification.probability * 2) \div 10
                 IN Put(enriched, "confidence",
                        Min(One, Get(enriched, "confidence", One \div 2) + ml_boost))
            ELSE enriched
    ELSE ioc

\* classify_url_iocs(iocs): every dict of the list updated in place, all kept
classify_url_iocs(h, iocs) ==
    [heap |-> [r \in DOMAIN h |-> IF r \in Range(iocs) THEN classify_one(h[r]) ELSE h[r]],
     out |-> iocs]

\* the body of the loop of filter_suspicious_urls for one dict
filter_one(ioc) ==
    IF ioc.type = "url"
    THEN LET suspicion_score == calculate_url_suspicion(ioc.value)
         IN Put(ioc, "enrichment",
                [suspicion_score |-> suspicion_score,
                 is_suspicious |-> suspicion_score > One \div 2,
                 suspicious_indicators |-> get_suspicious_indicators(ioc.value)]
                @@ Get(ioc, "enrichment", EmptyDict))
    ELSE ioc

\* whether filter_suspicious_urls appends the dict to `filtered`
filter_keeps(ioc) ==
    ioc.type = "url" => should_keep_url(ioc.value, calculate_url_suspicion(ioc.value))

\* filter_suspicious_urls(iocs)
filter_suspicious_urls(h, iocs) ==
    [heap |-> [r \in DOMAIN h |-> IF r \in Range(iocs) THEN filter_one(h[r]) ELSE h[r]],
     out |-> SelectSeq(iocs, LAMBDA r : filter_keeps(h[r]))]

-----------------------------------------------------------------------------
(* enrichment/enrich_ip.py *)

\* text.split(sep)[0]
FirstField(text, sep) ==
    LET i == FindAny(text, {sep}, 1)
    IN IF i = 0 THEN text ELSE SubSeq(text, 1, i - 1)

\* text.split('.')[1]; the model reads it only when the text has a second field
SecondField(text) ==
    LET i == FindAny(text, {"."}, 1)
    IN FirstField(SubSeq(text, i + 1, Len(text)), ".")

\* int(text) raises ValueError
IntRaises(text) == text = <<>> \/ ~DigitsAt(text, 1, Len(text))

\* get_basic_enrichment raises instead of returning
basic_enrichment_raises(ip_address) ==
    LET first == FirstField(ip_address, ".")
    IN \/ IntRaises(first)
       \/ /\ ParseInt(first) \in {172, 192}
          /\ \/ FindAny(ip_address, {"."}, 1) = 0
             \/ IntRaises(SecondField(ip_address))

\* seeded fault: the private range of 172 stops one short, 16 <= second_octet < 31
get_basic_enrichment_short_range(ip_address) ==
    LET first_octet == ParseInt(FirstField(ip_address, "."))
        second_octet == ParseInt(SecondField(ip_address))
        classification ==
            IF first_octet = 10 THEN "private"
            ELSE IF first_octet = 172
                 THEN IF 16 <= second_octet /\ second_octet < 31 THEN "private" ELSE "public"
            ELSE IF first_octet = 192
                 THEN IF second_octet = 168 THEN "private" ELSE "public"
            ELSE IF first_octet \in {127, 169} THEN "special"
            ELSE "public"
    IN [classification |-> classification, source |-> "basic_analysis"]

get_basic_enrichment(ip_address) ==
    LET first_octet == ParseInt(FirstField(ip_address, "."))
        second_octet == ParseInt(SecondField(ip_address))
        classification ==
            IF first_octet = 10 THEN "private"
            ELSE IF first_octet = 172
                 THEN IF 16 <= second_octet /\ second_octet <= 31 THEN "private" ELSE "public"
            ELSE IF first_octet = 192
                 THEN IF second_octet = 168 THEN "private" ELSE "public"
            ELSE IF first_octet \in {127, 169} THEN "special"
            ELSE "public"
    IN [classification |-> classification, source |-> "basic_analysis"]

\* the dict get_ipinfo_enrichment builds from a successful response
IpinfoResponse ==
    [country |-> "NL", region |-> "NH", city |-> "Amsterdam", org |-> "AS0 Example",
     timezone |-> "Europe/Amsterdam", source |-> "ipinfo.io"]

\* what enrich_single_ip returns: <<"dict", d>>, <<"None">> or <<"raise">>.
\* api is "no_key" (IPINFO_API_KEY unset), "ok" or "fail" (the request's outcome)
enrich_single_ip(ip_address, mock_db, api) ==
    IF ip_address \in DOMAIN mock_db /\ mock_db[ip_address] # EmptyDict
    THEN <<"dict", mock_db[ip_address]>>
    ELSE IF api = "ok" THEN <<"dict", IpinfoResponse>>
    ELSE IF api = "fail" THEN <<"None">>
    ELSE IF basic_enrichment_raises(ip_address) THEN <<"raise">>
    ELSE <<"dict", get_basic_enrichment(ip_address)>>

\* the body of the loop of enrich_ip_iocs for one dict
enrich_one(ioc, mock_db, api) ==
    IF ioc.type = "ip"
    THEN LET ip_address == FirstField(ioc.value, "/")
             enrichment_data == enrich_single_ip(ip_address, mock_db, api)
         IN IF enrichment_data[1] = "dict" /\ enrichment_data[2] # EmptyDict
            THEN Put(ioc, "enrichment", enrichment_data[2])
            ELSE ioc
    ELSE ioc

\* seeded fault: no try/except around the lookup, the first error ends the stage
\* with nothing returned
enrich_ip_iocs_aborting(h, iocs, mock_db, api) ==
    IF \E i \in DOMAIN iocs :
          /\ h[iocs[i]].type = "ip"
          /\ enrich_single_ip(FirstField(h[iocs[i]].value, "/"), mock_db, api) = <<"raise">>
    THEN [heap |-> h, out |-> <<>>]
    ELSE [heap |-> [r \in DOMAIN h |->
                      IF r \in Range(iocs) THEN enrich_one(h[r], mock_db, api) ELSE h[r]],
          out |-> iocs]

\* enrich_ip_iocs(iocs): every dict is appended to `enriched`
enrich_ip_iocs(h, iocs, mock_db, api) ==
    [heap |-> [r \in DOMAIN h |-> IF r \in Range(iocs) THEN enrich_one(h[r], mock_db, api) ELSE h[r]],
     out |-> iocs]

-----------------------------------------------------------------------------
(* storage/save_data.py *)

\* a file of the data directory: absent, written with `content`, or left partial
\* by a write that failed after open(..., 'w') truncated it
AbsentFile == [state |-> "absent"]

PartialFile == [state |-> "partial"]

WrittenFile(content) == [state |-> "written", content |-> content]

EmptyDisk == [main |-> AbsentFile, backups |-> <<>>, stats |-> AbsentFile]

\* count_ioc_types / count_sources: how many dicts hold each value of `field`
CountBy(iocs, field) ==
    [v \in {iocs[i][field] : i \in DOMAIN iocs} |->
        Cardinality({i \in DOMAIN iocs : iocs[i][field] = v})]

\* the `data` dict of save_processed_iocs (timestamps and processing time left out)
ProcessedData(iocs, metadata) ==
    [metadata |-> metadata
                  @@ [total_iocs |-> Len(iocs),
                      ioc_types |-> CountBy(iocs, "type"),
                      sources |-> CountBy(iocs, "source")],
     iocs |-> iocs]

\* save_processed_iocs: the disk it leaves and the value it returns.  outcome is
\* where the write stops: "ok", "fail_open" (makedirs or open of the main file
\* raises), "fail_main" (json.dump to the main file raises), "fail_backup" (the
\* backup file cannot be written)
SaveOutcomes == {"ok", "fail_open", "fail_main", "fail_backup"}

save_processed_iocs(d, iocs, metadata, outcome) ==
    LET data == ProcessedData(iocs, metadata)
    IN CASE outcome = "ok" ->
              [disk |-> [d EXCEPT !.main = WrittenFile(data),
                                  !.backups = Append(@, WrittenFile(data))],
               returns |-> TRUE]
         [] outcome = "fail_open" -> [disk |-> d, returns |-> FALSE]
         [] outcome = "fail_main" ->
              [disk |-> [d EXCEPT !.main = PartialFile], returns |-> FALSE]
         [] outcome = "fail_backup" ->
              [disk |-> [d EXCEPT !.main = WrittenFile(data)], returns |-> FALSE]

\* `if len(existing_stats) > 100`
STATS_RETENTION == 100

\* seeded fault: the slice keeps the oldest entries, existing_stats[:100]
FirstEntries(entries, n) ==
    IF Len(entries) > n THEN SubSeq(entries, 1, n) ELSE entries

\* existing_stats[-100:]
LastEntries(entries, n) ==
    IF Len(entries) > n THEN SubSeq(entries, Len(entries) - n + 1, Len(entries)) ELSE entries

\* save_statistics: the disk it leaves and the stats dict, which it stamps in place
\* (its return value is not read).  outcome is "ok", "fail_makedirs" (os.makedirs
\* raises, before the stamp) or "fail_write" (the write of the stats file raises)
StatsOutcomes == {"ok", "fail_makedirs", "fail_write"}

save_statistics(d, stats, timestamp, outcome) ==
    LET existing_stats == IF d.stats.state = "written" THEN d.stats.content ELSE <<>>
        stamped == stats @@ [timestamp |-> timestamp]
        appended == Append(existing_stats, stamped)
    IN CASE outcome = "ok" ->
              [disk |-> [d EXCEPT !.stats = WrittenFile(LastEntries(appended, STATS_RETENTION))],
               stats |-> stamped]
         [] outcome = "fail_makedirs" -> [disk |-> d, stats |-> stats]
         [] outcome = "fail_write" ->
              [disk |-> [d EXCEPT !.stats = PartialFile], stats |-> stamped]

-----------------------------------------------------------------------------
(* ingestion/fetch_*.py: the raw dicts the fetchers build from valid feed lines *)

IpPrivate == <<"1","0",".","0",".","0",".","7">>
UrlDocs == <<"h","t","t","p","s",":","/","/","d","o","c","s",".","e","x","a","m","p","l","e",".","o","r","g","/","g","u","i","d","e">>

\* longest list of raw dicts one fetcher returns
MaxFeedLen == 2

Feeds == <<"blocklist", "spamhaus", "digitalside">>

\* lines that pass the fetcher's validity test (is_valid_ip, is_valid_cidr, is_valid_url)
FeedValues(feed_name) ==
    CASE feed_name = "blocklist" -> {IpA, IpPrivate}
      [] feed_name = "spamhaus" -> {CidrA}
      [] feed_name = "digitalside" -> {UrlMalware, UrlDocs}

\* the dict a fetcher appends for a valid line
FeedIoc(feed_name, line, line_num) ==
    CASE feed_name = "blocklist" ->
            [value |-> line, type |-> "ip", source |-> "blocklist",
             source_url |-> "http://www.blocklist.de/lists/apache.txt",
             category |-> "brute_force", raw_data |-> line, line_number |-> line_num]
      [] feed_name = "spamhaus" ->
            [value |-> line, type |-> "ip", source |-> "spamhaus",
             source_url |-> "http://www.spamhaus.org/drop/drop.txt",
             category |-> "botnet_range",
             raw_data |-> line \o <<" ", ";", " ", "S", "B", "L", "1">>,
             line_number |-> line_num, sbl_reference |-> <<"S", "B", "L", "1">>]
      [] feed_name = "digitalside" ->
            [value |-> line, type |-> "url", source |-> "digitalside",
             source_url |-> "https://osint.digitalside.it/Threat-Intel/lists/latesturls.txt",
             category |-> "malware", raw_data |-> line, line_number |-> line_num,
             domain |-> urlparse(line).netloc, path |-> urlparse(line).path,
             scheme |-> urlparse(line).scheme]

\* the lists a fetcher can return
FeedOutputs(feed_name) ==
    UNION { { [i \in 1..n |-> FeedIoc(feed_name, f[i], i)] : f \in [1..n -> FeedValues(feed_name)] }
            : n \in 0..MaxFeedLen }

-----------------------------------------------------------------------------
(* pipeline.py: run_pipeline *)

\* data/mock_ip_db.json as load_mock_ip_db returns it
MockDbs ==
    { EmptyDict,
      [ip \in {IpA} |-> [country |-> "US", region |-> "CA", city |-> "Los Angeles",
                         org |-> "AS1 Example", timezone |-> "America/Los_Angeles",
                         source |-> "mock_db"]] }

ApiBehaviours == {"no_key", "ok", "fail"}

Snapshot(list) == [heap |-> heap, list |-> list]

\* the steps of run_pipeline, in the order of the code
StageOrder ==
    <<"INGEST", "NORMALIZE", "DEDUPE", "ENRICH_IP", "FILTER_URLS", "CLASSIFY_URLS", "PERSIST">>

\* the records a list of references stands for
Deref(h, list) == [i \in DOMAIN list |-> h[list[i]]]

FailedResult(error, processed_count) ==
    [success |-> FALSE, error |-> error, processed_count |-> processed_count]

\* seeded fault: the run fails as soon as one feed brought nothing
no_iocs_ingested_any_feed(raw) ==
    \E i \in DOMAIN Feeds : \A j \in DOMAIN raw : raw[j].source # Feeds[i]

\* seeded fault: the emptiness test is missing, the run goes on with no record
no_iocs_ingested_unchecked(raw) == FALSE

\* `if not raw_iocs`
no_iocs_ingested(raw) == raw = <<>>

Init ==
    /\ pc = "START"
    /\ clock = 0
    /\ raw_iocs = <<>>
    /\ ingestion_stats = EmptyDict
    /\ heap = <<>>
    /\ normalized_iocs = <<>>
    /\ deduplicated_iocs = <<>>
    /\ enriched_iocs = <<>>
    /\ filtered_iocs = <<>>
    /\ classified_iocs = <<>>
    /\ result = EmptyDict
    /\ disk = EmptyDisk
    /\ trace = <<>>
    /\ pre = [heap |-> <<>>, list |-> <<>>]
    /\ retained_ioc = EmptyDict
    /\ pending = {}

\* ensure_data_directory() returns
EnsureDataDirectory ==
    /\ pc = "START"
    /\ pc' = "INGEST"
    /\ UNCHANGED <<clock, raw_iocs, heap, normalized_iocs, deduplicated_iocs, pre, mergeVars,
                   stageVars, outVars>>

\* ensure_data_directory() raises: the outer except returns the failure
EnsureDataDirectoryRaises ==
    /\ pc = "START"
    /\ result' = FailedResult("OSError", 0)
    /\ pc' = "FAILED"
    /\ UNCHANGED <<clock, raw_iocs, heap, normalized_iocs, deduplicated_iocs, pre, mergeVars,
                   stageVars, ingestion_stats, disk, trace>>

\* after the last feed: `if not raw_iocs: return {...}`
AfterFeed(raw, stats) ==
    IF Cardinality(DOMAIN stats) < Len(Feeds)
    THEN /\ pc' = "INGEST"
         /\ UNCHANGED <<result, trace>>
    ELSE /\ trace' = Append(trace, "INGEST")
         /\ IF no_iocs_ingested(raw)
            THEN /\ result' = FailedResult("No IOCs were successfully ingested", 0)
                 /\ pc' = "FAILED"
            ELSE /\ pc' = "NORMALIZE"
                 /\ UNCHANGED result

\* one turn of the loop over feeds: fetch_func() returns feed_iocs
FetchFeed ==
    /\ pc = "INGEST"
    /\ LET feed_name == Feeds[Cardinality(DOMAIN ingestion_stats) + 1]
       IN \E feed_iocs \in FeedOutputs(feed_name) :
            /\ raw_iocs' = raw_iocs \o feed_iocs
            /\ ingestion_stats' = Put(ingestion_stats, feed_name, Len(feed_iocs))
    /\ AfterFeed(raw_iocs', ingestion_stats')
    /\ UNCHANGED <<clock, heap, normalized_iocs, deduplicated_iocs, pre, mergeVars, stageVars,
                   disk>>

\* one turn of the loop over feeds: fetch_func() raises
FetchFeedRaises ==
    /\ pc = "INGEST"
    /\ LET feed_name == Feeds[Cardinality(DOMAIN ingestion_stats) + 1]
       IN ingestion_stats' = Put(ingestion_stats, feed_name, 0)
    /\ AfterFeed(raw_iocs, ingestion_stats')
    /\ UNCHANGED <<clock, raw_iocs, heap, normalized_iocs, deduplicated_iocs, pre, mergeVars,
                   stageVars, disk>>

Normalize ==
    /\ pc = "NORMALIZE"
    /\ heap' = normalize_iocs(raw_iocs, clock)
    /\ normalized_iocs' = [i \in 1..Len(heap') |-> i]
    /\ pre' = Snapshot(<<>>)
    /\ trace' = Append(trace, "NORMALIZE")
    /\ pc' = "DEDUPE"
    /\ UNCHANGED <<clock, raw_iocs, deduplicated_iocs, mergeVars, stageVars, ingestion_stats,
                   result, disk>>

Deduplicate ==
    /\ pc = "DEDUPE"
    /\ LET r == deduplicate_iocs(heap, normalized_iocs)
       IN /\ heap' = r.heap
          /\ deduplicated_iocs' = r.out
    /\ pre' = Snapshot(normalized_iocs)
    /\ trace' = Append(trace, "DEDUPE")
    /\ pc' = "ENRICH_IP"
    /\ UNCHANGED <<clock, raw_iocs, normalized_iocs, mergeVars, stageVars, ingestion_stats,
                   result, disk>>

EnrichIp ==
    /\ pc = "ENRICH_IP"
    /\ \E mock_db \in MockDbs, api \in ApiBehaviours :
          LET r == enrich_ip_iocs(heap, deduplicated_iocs, mock_db, api)
          IN /\ heap' = r.heap
             /\ enriched_iocs' = r.out
    /\ pre' = Snapshot(deduplicated_iocs)
    /\ trace' = Append(trace, "ENRICH_IP")
    /\ pc' = "FILTER_URLS"
    /\ UNCHANGED <<clock, raw_iocs, normalized_iocs, deduplicated_iocs, mergeVars,
                   filtered_iocs, classified_iocs, ingestion_stats, result, disk>>

FilterUrls ==
    /\ pc = "FILTER_URLS"
    /\ LET r == filter_suspicious_urls(heap, enriched_iocs)
       IN /\ heap' = r.heap
          /\ filtered_iocs' = r.out
    /\ pre' = Snapshot(enriched_iocs)
    /\ trace' = Append(trace, "FILTER_URLS")
    /\ pc' = "CLASSIFY_URLS"
    /\ UNCHANGED <<clock, raw_iocs, normalized_iocs, deduplicated_iocs, mergeVars,
                   enriched_iocs, classified_iocs, ingestion_stats, result, disk>>

ClassifyUrls ==
    /\ pc = "CLASSIFY_URLS"
    /\ LET r == classify_url_iocs(heap, filtered_iocs)
       IN /\ heap' = r.heap
          /\ classified_iocs' = r.out
    /\ pre' = Snapshot(filtered_iocs)
    /\ trace' = Append(trace, "CLASSIFY_URLS")
    /\ pc' = "PERSIST"
    /\ UNCHANGED <<clock, raw_iocs, normalized_iocs, deduplicated_iocs, mergeVars,
                   enriched_iocs, filtered_iocs, ingestion_stats, result, disk>>

\* seeded fault: the counts of two stages written under each other's key
RunStatsSwapped ==
    [raw_iocs |-> Len(raw_iocs),
     normalized_iocs |-> Len(deduplicated_iocs),
     deduplicated_iocs |-> Len(normalized_iocs),
     final_iocs |-> Len(classified_iocs),
     ingestion_stats |-> ingestion_stats]

\* the `stats` dict of run_pipeline (processing time left out)
RunStats ==
    [raw_iocs |-> Len(raw_iocs),
     normalized_iocs |-> Len(normalized_iocs),
     deduplicated_iocs |-> Len(deduplicated_iocs),
     final_iocs |-> Len(classified_iocs),
     ingestion_stats |-> ingestion_stats]

\* Step 5 with save_processed_iocs returning True: save_statistics, then the
\* success result
Persist ==
    /\ pc = "PERSIST"
    /\ \E stats_outcome \in StatsOutcomes :
          LET saved == save_processed_iocs(disk, Deref(heap, classified_iocs),
                                           [ingestion_stats |-> ingestion_stats,
                                            pipeline_version |-> "1.0"],
                                           "ok")
              stored == save_statistics(saved.disk, RunStats, clock + 1, stats_outcome)
          IN /\ disk' = stored.disk
             /\ result' = [success |-> TRUE, processed_count |-> Len(classified_iocs),
                           statistics |-> stored.stats]
    /\ clock' = clock + 1
    /\ trace' = Append(trace, "PERSIST")
    /\ pc' = "DONE"
    /\ UNCHANGED <<raw_iocs, heap, normalized_iocs, deduplicated_iocs, pre, mergeVars,
                   stageVars, ingestion_stats>>

\* Step 5 with save_processed_iocs returning False
PersistFails ==
    /\ pc = "PERSIST"
    /\ \E outcome \in SaveOutcomes \ {"ok"} :
          disk' = save_processed_iocs(disk, Deref(heap, classified_iocs),
                                      [ingestion_stats |-> ingestion_stats,
                                       pipeline_version |-> "1.0"],
                                      outcome).disk
    /\ result' = FailedResult("Failed to save processed IOCs", Len(classified_iocs))
    /\ clock' = clock + 1
    /\ trace' = Append(trace, "PERSIST")
    /\ pc' = "FAILED"
    /\ UNCHANGED <<raw_iocs, heap, normalized_iocs, deduplicated_iocs, pre, mergeVars,
                   stageVars, ingestion_stats>>

Next ==
    \/ EnsureDataDirectory
    \/ EnsureDataDirectoryRaises
    \/ FetchFeed
    \/ FetchFeedRaises
    \/ Normalize
    \/ Deduplicate
    \/ EnrichIp
    \/ FilterUrls
    \/ ClassifyUrls
    \/ Persist
    \/ PersistFails

Spec == Init /\ [][Next]_vars

\* run_pipeline is one sequential call whose stages loop over finite lists: a
\* started run takes its next step.  This is WF_vars(Next) with ENABLED <<Next>>_vars
\* written out: every action is guarded by pc alone, so a step is possible exactly
\* as long as the run has not returned
FairSpec == Spec /\ ([]<><<Next>>_vars \/ []<>(pc \in {"DONE", "FAILED"}))

-----------------------------------------------------------------------------
(* Repeated runs: Step 5 of run_pipeline over the same data directory *)

\* runs beyond the retention count
MaxExtraRuns == 3

\* the first runs, the ones in which a write may fail
MaxFaultyRuns == 3

\* a run that ingested one blocklist line and stands before Step 5
InitHistory ==
    /\ pc = "PERSIST"
    /\ clock = 0
    /\ raw_iocs = <<FeedIoc("blocklist", IpA, 1)>>
    /\ ingestion_stats = [feed_name \in Range(Feeds) |->
                             IF feed_name = "blocklist" THEN 1 ELSE 0]
    /\ heap = enrich_ip_iocs(normalize_iocs(raw_iocs, 0), <<1>>, EmptyDict, "no_key").heap
    /\ normalized_iocs = <<1>>
    /\ deduplicated_iocs = <<1>>
    /\ enriched_iocs = <<1>>
    /\ filtered_iocs = <<1>>
    /\ classified_iocs = <<1>>
    /\ result = EmptyDict
    /\ disk = EmptyDisk
    /\ trace = SubSeq(StageOrder, 1, 6)
    /\ pre = [heap |-> heap, list |-> <<1>>]
    /\ retained_ioc = EmptyDict
    /\ pending = {}

\* Step 5 of a run all of whose writes succeed
PersistRun ==
    /\ pc = "PERSIST"
    /\ LET saved == save_processed_iocs(disk, Deref(heap, classified_iocs),
                                        [ingestion_stats |-> ingestion_stats,
                                         pipeline_version |-> "1.0"],
                                        "ok")
           stored == save_statistics(saved.disk, RunStats, clock + 1, "ok")
       IN /\ disk' = stored.disk
          /\ result' = [success |-> TRUE, processed_count |-> Len(classified_iocs),
                        statistics |-> stored.stats]
    /\ clock' = clock + 1
    /\ trace' = Append(trace, "PERSIST")
    /\ pc' = "DONE"
    /\ UNCHANGED <<raw_iocs, heap, normalized_iocs, deduplicated_iocs, pre, mergeVars,
                   stageVars, ingestion_stats>>

\* Step 5 of one of the first runs, with every outcome of the writes
PersistFaultyRun ==
    /\ clock < MaxFaultyRuns
    /\ (Persist \/ PersistFails)

\* run_pipeline is called again and reaches Step 5 with the same records
NextRun ==
    /\ pc \in {"DONE", "FAILED"}
    /\ clock < STATS_RETENTION + MaxExtraRuns
    /\ pc' = "PERSIST"
    /\ result' = EmptyDict
    /\ trace' = SubSeq(StageOrder, 1, 6)
    /\ UNCHANGED <<clock, raw_iocs, heap, normalized_iocs, deduplicated_iocs, pre, mergeVars,
                   stageVars, ingestion_stats, disk>>

NextHistory ==
    \/ PersistRun
    \/ PersistFaultyRun
    \/ NextRun

SpecHistory == InitHistory /\ [][NextHistory]_vars

-----------------------------------------------------------------------------
(* Claims about the pipeline run *)

\* C9: in every state of a pipeline run (after normalization, after every merge,
\* after the classification boost) every record's confidence lies in [0,1].
C9_ConfidenceInRange ==
    \A r \in DOMAIN heap :
        /\ Has(heap[r], "confidence")
        /\ 0 <= heap[r].confidence
        /\ heap[r].confidence <= One

\* a run that merged a duplicate and boosted a URL classified as suspicious
C9_Witness ==
    /\ pc = "PERSIST"
    /\ \E r \in Range(classified_iocs) : Get(heap[r], "duplicate_count", 1) >= 2
    /\ \E r \in Range(classified_iocs) :
          /\ heap[r].type = "url"
          /\ heap[r].enrichment.ml_classification.is_suspicious
          /\ heap[r].confidence > pre.heap[r].confidence

IsPrefix(s, t) == Len(s) <= Len(t) /\ SubSeq(t, 1, Len(s)) = s

Returned == result # EmptyDict

\* C10 as stated: the run fails only at ingestion.  success:false is returned only
\* when no raw record was ingested; the stages run in order; a finished run that
\* ingested a record is DONE with success:true.
C10_FailsOnlyAtIngestion ==
    /\ IsPrefix(trace, StageOrder)
    /\ (Returned /\ ~result.success) => raw_iocs = <<>>
    /\ (Returned /\ raw_iocs # <<>>) =>
          (pc = "DONE" /\ result.success /\ trace = StageOrder)

\* what a finished run returned, and after which stages
C10_Outcome ==
    /\ IsPrefix(trace, StageOrder)
    /\ Returned <=> pc \in {"DONE", "FAILED"}
    /\ pc = "DONE" =>
          /\ result.success
          /\ trace = StageOrder
          /\ raw_iocs # <<>>
          /\ disk.main.state = "written"
    /\ pc = "FAILED" =>
          /\ ~result.success
          /\ \/ trace = <<>> /\ raw_iocs = <<>>
             \/ trace = <<"INGEST">> /\ raw_iocs = <<>>
             \/ /\ trace = StageOrder
                /\ raw_iocs # <<>>
                /\ result.error = "Failed to save processed IOCs"
    /\ (~Returned /\ raw_iocs # <<>> /\ Len(trace) >= 1) => pc = StageOrder[Len(trace) + 1]

\* C10, amended: the run returns success:false only when the data directory
\* cannot be prepared, when the fetchers together yield no raw record, or when
\* save_processed_iocs fails at PERSIST.  The stages run in the order INGEST,
\* NORMALIZE, DEDUPE, ENRICH_IP, FILTER_URLS, CLASSIFY_URLS, PERSIST, never going
\* back; once a raw record was ingested the run passes all of them, also when an
\* intermediate stage produces an empty set, and ends in DONE with success:true
\* unless the save failed.
C10_FailsAtIngestOrPersist ==
    /\ []C10_Outcome
    /\ (pc = "NORMALIZE") ~> (pc \in {"DONE", "FAILED"} /\ trace = StageOrder)

\* a run whose only records were dropped by the URL filter, and that still ended
\* in DONE
C10_Witness ==
    /\ pc = "DONE"
    /\ result.success
    /\ raw_iocs # <<>>
    /\ classified_iocs = <<>>
    /\ trace = StageOrder

\* every feed of the loop has been called
AllFeedsCalled == Cardinality(DOMAIN ingestion_stats) = Len(Feeds)

\* C11: when all three feed fetchers fail or return no records, run_pipeline
\* returns success:false with error "No IOCs were successfully ingested", and
\* neither the processed-IOC artifact nor its backup is written.
C11_NoIocsNoArtifact ==
    (AllFeedsCalled /\ raw_iocs = <<>>) =>
        /\ pc = "FAILED"
        /\ result = FailedResult("No IOCs were successfully ingested", 0)
        /\ disk.main = AbsentFile
        /\ disk.backups = <<>>

\* the three fetchers were called and brought nothing
C11_Witness ==
    /\ AllFeedsCalled
    /\ \A feed_name \in DOMAIN ingestion_stats : ingestion_stats[feed_name] = 0
    /\ raw_iocs = <<>>
    /\ Returned

\* the feeds called so far, in the order of the loop
FeedsCalled == {Feeds[i] : i \in 1..Cardinality(DOMAIN ingestion_stats)}

\* how many raw records came from a feed
IngestedFrom(feed_name) ==
    Cardinality({i \in DOMAIN raw_iocs : raw_iocs[i].source = feed_name})

\* what the run holds while and after the feeds are called
C12_Ingested ==
    /\ DOMAIN ingestion_stats = FeedsCalled
    /\ \A feed_name \in DOMAIN ingestion_stats :
          ingestion_stats[feed_name] = IngestedFrom(feed_name)
    /\ (pc \notin {"START", "INGEST"} /\ trace # <<>>) => AllFeedsCalled
    /\ (AllFeedsCalled /\ raw_iocs # <<>>) => ~(pc = "FAILED" /\ trace = <<"INGEST">>)

\* what a failing fetcher leaves behind
C12_FailureStep ==
    LET feed_name == Feeds[Cardinality(DOMAIN ingestion_stats) + 1]
    IN /\ raw_iocs' = raw_iocs
       /\ ingestion_stats' = Put(ingestion_stats, feed_name, 0)
       /\ ~AllFeedsCalled' => pc' = "INGEST"
       /\ raw_iocs # <<>> => pc' \in {"INGEST", "NORMALIZE"}

\* C12: a failure of one feed fetcher does not stop the other fetchers from being
\* called nor discard records already ingested: the failing source is recorded
\* with count 0 in ingestion_stats, every source has an entry in ingestion_stats,
\* and the run continues whenever at least one other source returned a record.
C12_FeedFailureIsolated ==
    /\ []C12_Ingested
    /\ [][FetchFeedRaises => C12_FailureStep]_vars

\* a run past ingestion in which the first feed brought nothing and the last did
C12_Witness ==
    /\ pc = "NORMALIZE"
    /\ ingestion_stats["blocklist"] = 0
    /\ ingestion_stats["spamhaus"] = 0
    /\ ingestion_stats["digitalside"] > 0
    /\ raw_iocs # <<>>

\* the entries json.load reads from the run-history file: none when the file is
\* absent or cannot be parsed
History(d) == IF d.stats.state = "written" THEN d.stats.content ELSE <<>>

\* the history holds at most 100 entries, in run order
C13_Bounded ==
    /\ Len(History(disk)) <= 100
    /\ \A i \in DOMAIN History(disk) :
          /\ History(disk)[i].timestamp <= clock
          /\ \A j \in DOMAIN History(disk) :
                i < j => History(disk)[i].timestamp < History(disk)[j].timestamp

\* `new` is `old` with `entry` appended at the end and, beyond 100 entries, the
\* oldest ones evicted
AppendedEvictingOldest(old, entry, new) ==
    /\ Len(new) = Min(100, Len(old) + 1)
    /\ new[Len(new)] = entry
    /\ \A i \in 1..(Len(new) - 1) : new[i] = old[Len(old) + 1 - Len(new) + i]

\* a step in which a run returns success:true
SuccessfulRun == pc = "PERSIST" /\ pc' = "DONE" /\ result'.success

-----------------------------------------------------------------------------
(* Raw records handed to the functions directly *)

RawShapes ==
    { [value |-> IpA, type |-> "ip", source |-> "blocklist"],
      [value |-> IpA, type |-> "ip", source |-> "spamhaus"],
      [value |-> IpA, type |-> "url", source |-> "digitalside"],
      [value |-> IpA, type |-> "ip", source |-> "other"],
      [value |-> CidrA, type |-> "ip", source |-> "spamhaus"],
      [value |-> UrlMalware, type |-> "url", source |-> "digitalside"] }

\* a raw record as a fetcher builds it, at line i of its feed
MakeRaw(shape, i) ==
    shape @@ [source_url |-> "feed", category |-> "listed", raw_data |-> shape.value,
              line_number |-> i]

RawLists ==
    UNION { { [i \in 1..n |-> MakeRaw(f[i], i)] : f \in [1..n -> RawShapes] } : n \in 0..MaxLen }

-----------------------------------------------------------------------------
(* The functions applied to arbitrary lists: normalize, dedupe, dedupe again *)

NormalizeList ==
    /\ pc = "NORMALIZE"
    /\ heap' = normalize_iocs(raw_iocs, clock)
    /\ normalized_iocs' = [i \in 1..Len(heap') |-> i]
    /\ pre' = Snapshot(<<>>)
    /\ pc' = "DEDUPE"
    /\ UNCHANGED <<clock, raw_iocs, deduplicated_iocs, mergeVars, stageVars, outVars>>

DedupeList ==
    /\ pc = "DEDUPE"
    /\ LET r == deduplicate_iocs(heap, normalized_iocs)
       IN /\ heap' = r.heap
          /\ deduplicated_iocs' = r.out
    /\ pre' = Snapshot(normalized_iocs)
    /\ pc' = "DEDUPED"
    /\ UNCHANGED <<clock, raw_iocs, normalized_iocs, mergeVars, stageVars, outVars>>

DedupeAgain ==
    /\ pc = "DEDUPED"
    /\ LET r == deduplicate_iocs(heap, deduplicated_iocs)
       IN /\ heap' = r.heap
          /\ deduplicated_iocs' = r.out
    /\ pre' = Snapshot(deduplicated_iocs)
    /\ pc' = "DEDUPED_TWICE"
    /\ UNCHANGED <<clock, raw_iocs, normalized_iocs, mergeVars, stageVars, outVars>>

InitDedup ==
    /\ pc = "NORMALIZE"
    /\ clock = 0
    /\ raw_iocs \in RawLists
    /\ heap = <<>>
    /\ normalized_iocs = <<>>
    /\ deduplicated_iocs = <<>>
    /\ pre = [heap |-> <<>>, list |-> <<>>]
    /\ retained_ioc = EmptyDict
    /\ pending = {}
    /\ enriched_iocs = <<>>
    /\ filtered_iocs = <<>>
    /\ classified_iocs = <<>>
    /\ ingestion_stats = EmptyDict
    /\ result = EmptyDict
    /\ disk = EmptyDisk
    /\ trace = <<>>

NextDedup == NormalizeList \/ DedupeList \/ DedupeAgain

SpecDedup == InitDedup /\ [][NextDedup]_vars

-----------------------------------------------------------------------------
(* merge_duplicate_metadata applied to arbitrary records of one key, the       *)
(* duplicates arriving in any order                                            *)

\* most duplicates merged into one retained record
MaxDuplicates == 2

MergeShapes ==
    { [value |-> IpA, type |-> "ip", source |-> "blocklist"],
      [value |-> IpA, type |-> "ip", source |-> "spamhaus"],
      [value |-> IpA, type |-> "ip", source |-> "other"] }

MergeEnrichments ==
    { [classification |-> "public", source |-> "basic_analysis"],
      [country |-> "US", source |-> "mock_db"] }

MergeRecords ==
    LET plain == {normalize_one(MakeRaw(shape, 1), 0) : shape \in MergeShapes}
    IN plain \cup {Put(ioc, "enrichment", e) : ioc \in plain, e \in MergeEnrichments}

InitMerge ==
    /\ pc = "MERGE"
    /\ clock = 0
    /\ raw_iocs = <<>>
    /\ heap \in UNION {[1..n -> MergeRecords] : n \in 2..(MaxDuplicates + 1)}
    /\ normalized_iocs = <<>>
    /\ deduplicated_iocs = <<>>
    /\ pre = [heap |-> <<>>, list |-> <<>>]
    /\ retained_ioc = heap[1]
    /\ pending = 2..Len(heap)
    /\ enriched_iocs = <<>>
    /\ filtered_iocs = <<>>
    /\ classified_iocs = <<>>
    /\ ingestion_stats = EmptyDict
    /\ result = EmptyDict
    /\ disk = EmptyDisk
    /\ trace = <<>>

MergeDuplicate(d) ==
    /\ pc = "MERGE"
    /\ d \in pending
    /\ retained_ioc' = merge_duplicate_metadata(retained_ioc, heap[d])
    /\ pending' = pending \ {d}
    /\ pre' = [heap |-> <<retained_ioc>>, list |-> <<d>>]
    /\ UNCHANGED <<pc, clock, raw_iocs, heap, normalized_iocs, deduplicated_iocs, stageVars, outVars>>

NextMerge == \E d \in 1..(MaxDuplicates + 1) : MergeDuplicate(d)

SpecMerge == InitMerge /\ [][NextMerge]_vars

-----------------------------------------------------------------------------
(* Claims about merge_duplicate_metadata, under SpecMerge *)

SetMax(S) == CHOOSE x \in S : \A y \in S : x >= y

\* a merge has just been performed: pre.heap[1] is the retained record before it,
\* heap[pre.list[1]] the incoming duplicate
Merged == pc = "MERGE" /\ pre.list # <<>>

\* C3: after a merge the retained record's confidence is the maximum of its
\* confidence before and the incoming duplicate's; once all duplicates are merged
\* it is the maximum over all records, whatever the order of arrival.
C3_ConfidenceIsMax ==
    Merged =>
        /\ retained_ioc.confidence =
              Max(pre.heap[1].confidence, heap[pre.list[1]].confidence)
        /\ pending = {} =>
              retained_ioc.confidence = SetMax({heap[i].confidence : i \in DOMAIN heap})

C3_Witness ==
    /\ Merged
    /\ pending = {}
    /\ Len(heap) = 3
    /\ heap[pre.list[1]].confidence < pre.heap[1].confidence
    /\ heap[1].confidence < pre.heap[1].confidence

\* C6: a merge keeps every enrichment key of the retained record with its value,
\* and every key it adds is copied from the incoming duplicate.
C6_EnrichmentNeverOverwritten ==
    Merged =>
        LET before == Get(pre.heap[1], "enrichment", EmptyDict)
            after == Get(retained_ioc, "enrichment", EmptyDict)
            incoming == Get(heap[pre.list[1]], "enrichment", EmptyDict)
        IN /\ Has(pre.heap[1], "enrichment") => Has(retained_ioc, "enrichment")
           /\ \A k \in DOMAIN before : k \in DOMAIN after /\ after[k] = before[k]
           /\ \A k \in (DOMAIN after) \ (DOMAIN before) :
                 k \in DOMAIN incoming /\ after[k] = incoming[k]

C6_Witness ==
    /\ Merged
    /\ Has(pre.heap[1], "enrichment")
    /\ Has(heap[pre.list[1]], "enrichment")
    /\ pre.heap[1].enrichment.source # heap[pre.list[1]].enrichment.source
    /\ DOMAIN retained_ioc.enrichment = {"classification", "country", "source"}

-----------------------------------------------------------------------------
(* Claims about deduplicate_iocs, under SpecDedup *)

\* the raw (value, type) pair of a record
Pair(ioc) == <<ioc.value, ioc.type>>

Pairs(h, list) == {Pair(h[list[i]]) : i \in DOMAIN list}

\* the references of list whose pair is p, in list order
WithPair(h, list, p) == SelectSeq(list, LAMBDA r : Pair(h[r]) = p)

\* the first occurrence of every element of a sequence, in order
FirstSeen(s) ==
    LET idx == SelectSeq([i \in 1..Len(s) |-> i], LAMBDA i : \A j \in 1..(i - 1) : s[j] # s[i])
    IN [k \in 1..Len(idx) |-> s[idx[k]]]

Deduped == pc \in {"DEDUPED", "DEDUPED_TWICE"}

\* C1: the output of deduplicate_iocs holds exactly one record for each distinct
\* raw (value, type) pair of its input: no pair twice, no pair of the input missing.
C1_OneRecordPerPair ==
    Deduped =>
        /\ \A i, j \in DOMAIN deduplicated_iocs :
              i # j => Pair(heap[deduplicated_iocs[i]]) # Pair(heap[deduplicated_iocs[j]])
        /\ Pairs(heap, deduplicated_iocs) = Pairs(pre.heap, pre.list)

C1_Witness ==
    /\ pc = "DEDUPED"
    /\ Len(pre.list) = 3
    /\ Len(deduplicated_iocs) = 2
    /\ \E i, j \in DOMAIN deduplicated_iocs :
          /\ heap[deduplicated_iocs[i]].value = heap[deduplicated_iocs[j]].value
          /\ heap[deduplicated_iocs[i]].type # heap[deduplicated_iocs[j]].type

\* C2 (as claimed): when deduplicate_iocs merged records sharing a key, the retained
\* record's sources list holds every contributing source exactly once, in the order
\* the sources were first encountered in the input.
C2_SourcesFirstSeenOrder ==
    pc = "DEDUPED" =>
        \A r \in Range(deduplicated_iocs) :
            LET group == WithPair(pre.heap, pre.list, Pair(heap[r]))
                contributed == [i \in 1..Len(group) |-> pre.heap[group[i]].source]
            IN Len(group) >= 2 =>
                  /\ Has(heap[r], "sources")
                  /\ heap[r].sources = FirstSeen(contributed)

\* C4 (as claimed): after normalization and deduplicate_iocs every output record has
\* duplicate_count >= 1, equal to the number of input records sharing its key.
C4_DuplicateCountIsGroupSize ==
    pc = "DEDUPED" =>
        \A r \in Range(deduplicated_iocs) :
            /\ Has(heap[r], "duplicate_count")
            /\ heap[r].duplicate_count >= 1
            /\ heap[r].duplicate_count = Len(WithPair(pre.heap, pre.list, Pair(heap[r])))

\* C5 (as claimed): every record produced by normalization and deduplication carries
\* a sources collection that is non-empty, holds the primary source, and no source twice.
C5_SourcesNonEmptyDistinct ==
    pc = "DEDUPED" =>
        \A r \in Range(deduplicated_iocs) :
            /\ Has(heap[r], "sources")
            /\ heap[r].sources # <<>>
            /\ heap[r].source \in Range(heap[r].sources)
            /\ \A i, j \in DOMAIN heap[r].sources :
                  i # j => heap[r].sources[i] # heap[r].sources[j]

\* C7: deduplicate_iocs is idempotent: applied to its own output it returns the same
\* sequence of records with the same field values.
C7_DedupIdempotent ==
    pc = "DEDUPED_TWICE" =>
        /\ deduplicated_iocs = pre.list
        /\ heap = pre.heap

C7_Witness ==
    /\ pc = "DEDUPED_TWICE"
    /\ Len(deduplicated_iocs) = 2
    /\ Len(normalized_iocs) = 3
    /\ \E r \in Range(deduplicated_iocs) :
          Has(heap[r], "duplicate_count") /\ heap[r].duplicate_count = 2

\* the fields of a record that deduplication takes from the first occurrence
Identity(ioc) ==
    [k \in {"id", "value", "type", "source", "source_url", "category", "metadata",
            "first_seen"} |-> ioc[k]]

\* C8: the output is the subsequence of the input made of the first record seen for
\* each (value, type) key, in input order, and that record keeps its id, primary
\* source, category and metadata.
C8_FirstOccurrenceOrder ==
    pc = "DEDUPED" =>
        /\ deduplicated_iocs =
              SelectSeq(pre.list,
                        LAMBDA r : \A q \in 1..(r - 1) : Pair(pre.heap[q]) # Pair(pre.heap[r]))
        /\ \A r \in Range(deduplicated_iocs) : Identity(heap[r]) = Identity(pre.heap[r])

C8_Witness ==
    /\ pc = "DEDUPED"
    /\ Len(pre.list) = 3
    /\ deduplicated_iocs = <<1, 2>>
    /\ Pair(heap[3]) = Pair(heap[1])
    /\ heap[3].source # heap[1].source

-----------------------------------------------------------------------------
(* Claims about normalization *)

Triple(ioc) == <<ioc.value, ioc.type, ioc.source>>

\* timestamps of other runs
RunTimes == 0..2

\* raw records with the triple of `ioc` and any other fields
Variants(ioc) ==
    { [value |-> ioc.value, type |-> ioc.type, source |-> ioc.source,
       source_url |-> "feed", category |-> category, raw_data |-> raw_data,
       line_number |-> line_number] :
         category \in {"listed", "brute_force"},
         raw_data \in {ioc.value, ioc.value \o <<" ", ";">>},
         line_number \in 1..(MaxLen + 1) }

\* C14: the id of a normalized record is a function of (value, type, source)
\* only: two raw records with the same triple get the same id in the same or in
\* different runs, whatever their other fields (line number, category, raw data)
\* and whatever the run timestamp.
C14_IdFromTripleOnly ==
    pc # "NORMALIZE" =>
        /\ Len(heap) = Len(raw_iocs)
        /\ \A i, j \in DOMAIN raw_iocs :
              Triple(raw_iocs[i]) = Triple(raw_iocs[j]) => heap[i].id = heap[j].id
        /\ \A i \in DOMAIN raw_iocs :
              \A other \in Variants(raw_iocs[i]), current_time \in RunTimes :
                  /\ normalize_one(other, current_time).id = heap[i].id
                  /\ Len(normalize_iocs(<<other>>, current_time)) = 1
                  /\ normalize_iocs(<<other>>, current_time)[1].id = heap[i].id

\* two records of one batch with the same triple on different lines
C14_Witness ==
    /\ pc = "DEDUPE"
    /\ \E i, j \in DOMAIN raw_iocs :
          /\ i # j
          /\ Triple(raw_iocs[i]) = Triple(raw_iocs[j])
          /\ raw_iocs[i].line_number # raw_iocs[j].line_number
          /\ heap[i].id = heap[j].id

-----------------------------------------------------------------------------
(* normalize_iocs applied to arbitrary batches, malformed records included *)

\* a URL that holds an extension of the list before its query string
UrlQuery == <<"h","t","t","p",":","/","/","f","i","l","e","s",".","e","x","a","m","p","l","e","/","s","e","t","u","p",".","e","x","e","?","i","d","=","7">>

\* longest batch handed to normalize_iocs
MaxBatch == 2

\* raw dicts with the three mandatory keys
WellFormed ==
    { [value |-> value, type |-> type, source |-> source,
       source_url |-> "feed", category |-> "listed", raw_data |-> value, line_number |-> 1] :
         value \in {IpA, CidrA, UrlMalware, UrlDocs, UrlQuery},
         type \in {"ip", "url"},
         source \in {"blocklist", "spamhaus", "digitalside", "other"} }

\* raw dicts lacking one of the keys normalize_iocs reads with ioc[...]
Malformed ==
    { [type |-> "ip", source |-> "blocklist", raw_data |-> IpA],
      [value |-> IpA, source |-> "blocklist", raw_data |-> IpA],
      [value |-> IpA, type |-> "ip", raw_data |-> IpA] }

Batches ==
    UNION { [1..n -> WellFormed \cup Malformed] : n \in 0..MaxBatch }

InitNormalize ==
    /\ pc = "NORMALIZE"
    /\ clock = 0
    /\ raw_iocs \in Batches
    /\ heap = <<>>
    /\ normalized_iocs = <<>>
    /\ deduplicated_iocs = <<>>
    /\ pre = [heap |-> <<>>, list |-> <<>>]
    /\ retained_ioc = EmptyDict
    /\ pending = {}
    /\ enriched_iocs = <<>>
    /\ filtered_iocs = <<>>
    /\ classified_iocs = <<>>
    /\ ingestion_stats = EmptyDict
    /\ result = EmptyDict
    /\ disk = EmptyDisk
    /\ trace = <<>>

NextNormalize == NormalizeList

SpecNormalize == InitNormalize /\ [][NextNormalize]_vars

\* s ends with suffix
EndsWith(s, suffix) ==
    Len(s) >= Len(suffix) /\ SubSeq(s, Len(s) - Len(suffix) + 1, Len(s)) = suffix

\* the confidence the rule gives: base value of the source, +0.05 for an ip value
\* with '/', +0.1 for a url value ending with a listed extension, clamped to [0,1]
RuleConfidence(ioc) ==
    LET base == CASE ioc.source = "spamhaus" -> 2700
                  [] ioc.source = "blocklist" -> 2400
                  [] ioc.source = "digitalside" -> 2100
                  [] OTHER -> 1500
        cidr == IF ioc.type = "ip" /\ \E i \in DOMAIN ioc.value : ioc.value[i] = "/"
                THEN 150 ELSE 0
        extension ==
            IF ioc.type = "url" /\ \E ext \in {<<".","e","x","e">>, <<".","z","i","p">>,
                                               <<".","r","a","r">>, <<".","b","a","t">>,
                                               <<".","s","c","r">>} :
                                      EndsWith(Lower(ioc.value), ext)
            THEN 300 ELSE 0
    IN Max(0, Min(One, base + cidr + extension))

\* C15: the initial confidence of a normalized record is the base value of its
\* source (spamhaus 0.9, blocklist 0.8, digitalside 0.7, any other source 0.5),
\* plus 0.05 when type is ip and the value contains '/', plus 0.1 when type is url
\* and the value ends with one of .exe, .zip, .rar, .bat, .scr, clamped to [0,1];
\* no other input raises it.
C15_InitialConfidence ==
    \A r \in DOMAIN heap : heap[r].confidence = RuleConfidence(heap[r])

\* the raw record has the three keys normalize_iocs cannot do without
CanBeNormalized(ioc) == ioc \in WellFormed

\* C16: normalize_iocs never fails the batch: a raw record that cannot be
\* normalized (for example one lacking value, type or source) is dropped, and
\* every other raw record of the batch still yields exactly one normalized record,
\* in input order.
C16_NormalizeNeverFailsBatch ==
    pc # "NORMALIZE" =>
        LET kept == SelectSeq(raw_iocs, CanBeNormalized)
        IN /\ Len(heap) = Len(kept)
           /\ normalized_iocs = [i \in 1..Len(kept) |-> i]
           /\ \A i \in DOMAIN kept :
                 /\ heap[i].value = kept[i].value
                 /\ heap[i].type = kept[i].type
                 /\ heap[i].source = kept[i].source

\* a batch whose first record lacks a key and whose second is normalized
C16_Witness ==
    /\ pc = "DEDUPE"
    /\ Len(raw_iocs) = 2
    /\ raw_iocs[1] \in Malformed
    /\ raw_iocs[2] \in WellFormed
    /\ Len(heap) = 1
    /\ heap[1].value = raw_iocs[2].value

-----------------------------------------------------------------------------
(* Claims about the enrichment stages *)

\* the address enrich_ip_iocs looks up for an IP record
LookupAddress(ioc) == FirstField(ioc.value, "/")

\* C17: in the IP path, when the address is not in the reference dataset and an
\* external credential is configured, any failure of the external lookup degrades
\* to the basic range classification: the record ends with enrichment tagged
\* source "basic_analysis" rather than with no enrichment.
C17_LookupFailureDegradesToBasic ==
    pc = "FILTER_URLS" =>
        \A r \in Range(deduplicated_iocs), mock_db \in MockDbs :
            (pre.heap[r].type = "ip" /\ LookupAddress(pre.heap[r]) \notin DOMAIN mock_db) =>
                LET after == enrich_ip_iocs(pre.heap, deduplicated_iocs, mock_db, "fail").heap[r]
                IN /\ Has(after, "enrichment")
                   /\ after.enrichment.source = "basic_analysis"

-----------------------------------------------------------------------------
(* The enrichment functions applied to arbitrary record lists *)

\* a value of type ip that is no address: int() of its first field raises
NotAnAddress == <<"e","x","a","m","p","l","e",".","o","r","g">>

\* a URL whose port is out of range: parsed.port raises
UrlBadPort == <<"h","t","t","p",":","/","/","e","x","a","m","p","l","e",".","o","r","g",":","9","9","9","9","9","/","x">>

\* str(n) for 0 <= n <= 255
FormatOctet(n) ==
    LET digit(k) == CHOOSE c \in Digits : DigitValue(c) = k
    IN IF n < 10 THEN <<digit(n)>>
       ELSE IF n < 100 THEN <<digit(n \div 10), digit(n % 10)>>
       ELSE <<digit(n \div 100), digit((n \div 10) % 10), digit(n % 10)>>

\* the dotted quad a.b.c.d
Dotted(a, b, c, d) ==
    FormatOctet(a) \o <<".">> \o FormatOctet(b) \o <<".">> \o FormatOctet(c) \o <<".">>
        \o FormatOctet(d)

\* first and second octets around every boundary get_basic_enrichment tests
FirstOctets == {0, 9, 10, 11, 126, 127, 128, 168, 169, 170, 171, 172, 173, 191, 192, 193, 255}

SecondOctets == {0, 15, 16, 17, 30, 31, 32, 167, 168, 169, 255}

Addresses == {Dotted(a, b, 0, 1) : a \in FirstOctets, b \in SecondOctets}

\* longest list handed to the enrichment functions
MaxEnrichLen == 2

\* the normalized record of a raw dict
Normalized(value, type, source) ==
    normalize_one(MakeRaw([value |-> value, type |-> type, source |-> source], 1), 0)

EnrichRecords ==
    { Normalized(IpA, "ip", "blocklist"),
      Normalized(IpPrivate, "ip", "blocklist"),
      Normalized(CidrA, "ip", "spamhaus"),
      Normalized(NotAnAddress, "ip", "other"),
      Normalized(UrlMalware, "url", "digitalside"),
      Normalized(UrlDocs, "url", "digitalside"),
      Normalized(UrlBadPort, "url", "digitalside") }

EnrichHeaps ==
    UNION { [1..n -> EnrichRecords] : n \in 0..MaxEnrichLen }
    \cup { <<Normalized(address, "ip", "blocklist")>> : address \in Addresses }

InitEnrich ==
    /\ pc = "ENRICH_IP"
    /\ clock = 0
    /\ raw_iocs = <<>>
    /\ ingestion_stats = EmptyDict
    /\ heap \in EnrichHeaps
    /\ normalized_iocs = [i \in 1..Len(heap) |-> i]
    /\ deduplicated_iocs = [i \in 1..Len(heap) |-> i]
    /\ enriched_iocs = <<>>
    /\ filtered_iocs = <<>>
    /\ classified_iocs = <<>>
    /\ result = EmptyDict
    /\ disk = EmptyDisk
    /\ trace = SubSeq(StageOrder, 1, 3)
    /\ pre = [heap |-> heap, list |-> deduplicated_iocs]
    /\ retained_ioc = EmptyDict
    /\ pending = {}

NextEnrich ==
    \/ EnrichIp
    \/ FilterUrls
    \/ ClassifyUrls

SpecEnrich == InitEnrich /\ [][NextEnrich]_vars

\* the classification the rules give to a.b.c.d
RuleClassification(a, b) ==
    CASE a = 10 -> "private"
      [] a = 172 -> IF 16 <= b /\ b <= 31 THEN "private" ELSE "public"
      [] a = 192 -> IF b = 168 THEN "private" ELSE "public"
      [] a \in {127, 169} -> "special"
      [] OTHER -> "public"

\* the record got its enrichment from get_basic_enrichment
BasicallyEnriched(ioc) ==
    /\ Has(ioc, "enrichment")
    /\ Has(ioc.enrichment, "source")
    /\ ioc.enrichment.source = "basic_analysis"

\* C18: for every syntactically valid IPv4 address a.b.c.d, get_basic_enrichment
\* returns exactly one classification out of private, public, special, following
\* the rules: a=10 private; a=172 private iff 16<=b<=31 else public; a=192 private
\* iff b=168 else public; a=127 or a=169 special; every other address public.
C18_BasicClassification ==
    \A r \in DOMAIN heap :
        \A a \in FirstOctets, b \in SecondOctets :
            heap[r].value = Dotted(a, b, 0, 1) =>
                /\ ~basic_enrichment_raises(heap[r].value)
                /\ get_basic_enrichment(heap[r].value).classification
                       \in {"private", "public", "special"}
                /\ get_basic_enrichment(heap[r].value).classification = RuleClassification(a, b)
                /\ BasicallyEnriched(heap[r]) =>
                       heap[r].enrichment =
                           [classification |-> RuleClassification(a, b),
                            source |-> "basic_analysis"]

\* the last address of the private range of 172, classified
C18_Witness ==
    /\ pc = "FILTER_URLS"
    /\ heap[1].value = Dotted(172, 31, 0, 1)
    /\ BasicallyEnriched(heap[1])
    /\ heap[1].enrichment.classification = "private"

\* the record without its enrichment
Unenriched(ioc) == [k \in DOMAIN ioc \ {"enrichment"} |-> ioc[k]]

\* the lookup of an IP record raises inside enrich_ip_iocs
LookupRaises(ioc, mock_db, api) ==
    /\ ioc.type = "ip"
    /\ enrich_single_ip(LookupAddress(ioc), mock_db, api) = <<"raise">>

\* filter_suspicious_urls keeps the record: it is no URL, or a URL should_keep_url accepts
KeptByFilter(r) ==
    \/ pre.heap[r].type # "url"
    \/ should_keep_url(pre.heap[r].value, calculate_url_suspicion(pre.heap[r].value))

\* what enrich_ip_iocs did, and would do with any dataset and any lookup outcome
C19_AfterEnrichIp ==
    /\ enriched_iocs = deduplicated_iocs
    /\ \A r \in DOMAIN heap : Unenriched(heap[r]) = Unenriched(pre.heap[r])
    /\ \A mock_db \in MockDbs, api \in ApiBehaviours :
          LET after == enrich_ip_iocs(pre.heap, deduplicated_iocs, mock_db, api)
          IN /\ after.out = deduplicated_iocs
             /\ \A r \in Range(deduplicated_iocs) :
                   /\ LookupRaises(pre.heap[r], mock_db, api) => after.heap[r] = pre.heap[r]
                   /\ (pre.heap[r].type = "ip" /\ api # "fail"
                       /\ ~LookupRaises(pre.heap[r], mock_db, api)) =>
                          Has(after.heap[r], "enrichment")

\* what filter_suspicious_urls did
C19_AfterFilterUrls ==
    /\ filtered_iocs = SelectSeq(enriched_iocs, KeptByFilter)
    /\ \A r \in Range(enriched_iocs) : Unenriched(heap[r]) = Unenriched(pre.heap[r])

EnrichmentKeys(ioc) == IF Has(ioc, "enrichment") THEN DOMAIN ioc.enrichment ELSE {}

\* C20: enrichment is additive only: no enrichment stage (enrich_ip_iocs,
\* filter_suspicious_urls, classify_url_iocs) removes an enrichment key that was
\* already present on the record when the stage started.
C20_EnrichmentAdditiveOnly ==
    /\ pc = "ENRICH_IP" => \A r \in DOMAIN heap : EnrichmentKeys(heap[r]) = {}
    /\ pc \in {"FILTER_URLS", "CLASSIFY_URLS", "PERSIST", "DONE", "FAILED"} =>
          \A r \in DOMAIN pre.heap : EnrichmentKeys(pre.heap[r]) \subseteq EnrichmentKeys(heap[r])

\* a URL record that came to the classification with the keys of the filter and
\* left it with those and the classification
C20_Witness ==
    /\ pc = "PERSIST"
    /\ \E r \in Range(classified_iocs) :
          /\ heap[r].type = "url"
          /\ EnrichmentKeys(pre.heap[r]) =
                {"suspicion_score", "is_suspicious", "suspicious_indicators"}
          /\ EnrichmentKeys(heap[r]) =
                {"suspicion_score", "is_suspicious", "suspicious_indicators", "ml_classification"}
    /\ \E r \in Range(classified_iocs) :
          /\ heap[r].type = "ip"
          /\ EnrichmentKeys(heap[r]) # {}

-----------------------------------------------------------------------------
(* The URL functions applied to URLs built from hosts, ports and paths *)

\* hosts: an ordinary one, an IP literal, one of more than 30 characters with a
\* digit and one without, ten alphanumerics before .tk, the host of UrlMalware,
\* a URL shortener
UrlHosts ==
    {<<"e","x","a","m","p","l","e",".","o","r","g">>,
     <<"2","0","3",".","0",".","1","1","3",".","5">>,
     <<"n","o","d","e","7",".","s","t","a","t","i","c","-","m","i","r","r","o","r","-","h","o","s","t","-","n","e","t","w","o","r","k",".","e","x","a","m","p","l","e",".","o","r","g">>,
     <<"s","t","a","t","i","c",".","m","i","r","r","o","r","-","h","o","s","t","-","n","e","t","w","o","r","k","-","s","e","r","v","i","c","e",".","e","x","a","m","p","l","e",".","o","r","g">>,
     <<"a","b","c","d","e","f","g","h","i","j",".","t","k">>,
     <<"m","a","l","w","a","r","e","-","u","p","d","a","t","e","-","c","r","a","c","k",".","t","k">>,
     <<"b","i","t",".","l","y">>}

\* no port, a port of the suspicious list, a port parsed.port rejects
UrlPorts == {<<>>, <<":","8","0","8","0">>, <<":","9","9","9","9","9">>}

UrlPaths ==
    {<<>>,
     <<"/","f","i","l","e",".","e","x","e">>,
     <<"/","s","e","t","u","p",".","e","x","e",".","z","i","p">>,
     <<"/","l","i","b",".","j","s">>,
     <<"/","a","d","m","i","n","/","l","o","g","i","n">>,
     <<"/","d","o","w","n","l","o","a","d">>,
     <<"/","m","i","r","r","o","r","/","2","0","3",".","0",".","1","1","3",".","5">>,
     <<"/","d","o","w","n","l","o","a","d","/","s","e","t","u","p",".","e","x","e",".","z","i","p">>,
     <<"/","g","u","i","d","e","?","x","=","1">>}

\* a URL of more than 200 characters
UrlLong == <<"h","t","t","p",":","/","/","e","x","a","m","p","l","e",".","o","r","g","/">> \o [i \in 1..200 |-> "a"]

Urls ==
    { <<"h","t","t","p",":","/","/">> \o host \o port \o path : host \in UrlHosts, port \in UrlPorts, path \in UrlPaths }
    \cup {UrlLong, UrlMalware, UrlDocs}

\* URL records as normalize_iocs builds them
UrlRecords ==
    { Normalized(url, "url", source) : url \in Urls, source \in {"digitalside", "spamhaus"} }

InitUrl ==
    /\ pc = "FILTER_URLS"
    /\ clock = 0
    /\ raw_iocs = <<>>
    /\ ingestion_stats = EmptyDict
    /\ heap \in { <<ioc>> : ioc \in UrlRecords }
    /\ normalized_iocs = <<1>>
    /\ deduplicated_iocs = <<1>>
    /\ enriched_iocs = <<1>>
    /\ filtered_iocs = <<>>
    /\ classified_iocs = <<>>
    /\ result = EmptyDict
    /\ disk = EmptyDisk
    /\ trace = SubSeq(StageOrder, 1, 4)
    /\ pre = [heap |-> heap, list |-> enriched_iocs]
    /\ retained_ioc = EmptyDict
    /\ pending = {}

NextUrl ==
    \/ FilterUrls
    \/ ClassifyUrls

SpecUrl == InitUrl /\ [][NextUrl]_vars

-----------------------------------------------------------------------------
(* Claims about URL scoring, filtering and classification *)

\* the suspicious extensions found in the lower-cased URL
ExtensionsIn(url) ==
    {SUSPICIOUS_EXTENSIONS[i] : i \in {j \in DOMAIN SUSPICIOUS_EXTENSIONS :
                                          Contains(Lower(url), SUSPICIOUS_EXTENSIONS[j])}}

\* what the signals other than the extension add to the score of the URL
OtherSignals(url) ==
    PatternCount(Lower(url)) * ((2 * One) \div 10) + ParsedSignals(url)

\* the records filter_suspicious_urls has scored
Scored == {r \in DOMAIN heap : /\ Has(heap[r], "enrichment")
                               /\ Has(heap[r].enrichment, "suspicion_score")}

\* C21: the score calculate_url_suspicion returns is at least 0 and at most 1,
\* it is at least 0.3 whenever the URL contains ".exe", and the extension signal
\* adds 0.3 at most once, however many suspicious extensions the URL holds.
C21_ScoreInRange ==
    \A r \in Scored :
        LET url == heap[r].value
            score == heap[r].enrichment.suspicion_score
        IN /\ 0 <= score
           /\ score <= One
           /\ Contains(url, <<".", "e", "x", "e">>) => score >= (3 * One) \div 10
           /\ score <= (3 * One) \div 10 + OtherSignals(url)
           /\ ExtensionsIn(url) = {} => score <= OtherSignals(url)

\* a scored URL with two suspicious extensions whose signals add up to more than 1
C21_Witness ==
    \E r \in Scored :
        /\ Cardinality(ExtensionsIn(heap[r].value)) >= 2
        /\ (3 * One) \div 10 + OtherSignals(heap[r].value) > One
        /\ heap[r].enrichment.suspicion_score = One

\* the records filter_suspicious_urls has scored whose value is UrlMalware
ScoredMalware == {r \in Scored : heap[r].value = UrlMalware}

\* C22: the URL http://malware-update-crack.tk/file.exe gets a suspicion score of
\* at least 0.7, is retained by filter_suspicious_urls and is marked
\* is_suspicious = true.
C22_MalwareUrlFlagged ==
    \A r \in ScoredMalware :
        /\ heap[r].enrichment.suspicion_score >= (7 * One) \div 10
        /\ r \in Range(filtered_iocs)
        /\ heap[r].enrichment.is_suspicious

\* the URL records classify_url_iocs has just classified
JustClassified ==
    IF trace # <<>> /\ trace[Len(trace)] = "CLASSIFY_URLS"
    THEN {r \in Range(pre.list) : pre.heap[r].type = "url"}
    ELSE {}

\* C23: classify_url_iocs sets the confidence of a URL record to
\* min(1.0, confidence + probability * 0.2) exactly when its classification has
\* is_suspicious = true, which is probability > 0.5; otherwise the confidence is
\* unchanged, and in no case is it lower than before.
C23_ConfidenceBoost ==
    \A r \in JustClassified :
        LET before == pre.heap[r].confidence
            after == heap[r].confidence
            classification == heap[r].enrichment.ml_classification
        IN /\ classification.is_suspicious <=> classification.probability > One \div 2
           /\ classification.is_suspicious =>
                  10 * after = Min(10 * One, 10 * before + 2 * classification.probability)
           /\ ~classification.is_suspicious => after = before
           /\ after >= before

\* a suspicious record with confidence below 1 whose boost is cut by the cap
C23_Witness ==
    \E r \in JustClassified :
        LET classification == heap[r].enrichment.ml_classification
        IN /\ classification.is_suspicious
           /\ pre.heap[r].confidence < One
           /\ 10 * pre.heap[r].confidence + 2 * classification.probability > 10 * One
           /\ heap[r].confidence = One

\* the URL records filter_suspicious_urls has just gone through
JustFiltered ==
    IF trace # <<>> /\ trace[Len(trace)] = "FILTER_URLS"
    THEN {r \in Range(pre.list) : pre.heap[r].type = "url"}
    ELSE {}

\* (a) the value holds .exe, .zip, .bat or .scr, in any letter case
HasPriorityExtension(url) ==
    \E ext \in {<<".", "e", "x", "e">>, <<".", "z", "i", "p">>,
                <<".", "b", "a", "t">>, <<".", "s", "c", "r">>} : Contains(Lower(url), ext)

\* C25: filter_suspicious_urls keeps a URL record if and only if its value
\* contains .exe, .zip, .bat or .scr, or its suspicion score is above 0.4, or the
\* embedded-IP pattern matches its value; every other URL record is removed, a
\* record whose score is exactly 0.4 and nothing else among them.
C25_RetentionRule ==
    \A r \in JustFiltered :
        LET url == heap[r].value
            score == heap[r].enrichment.suspicion_score
        IN r \in Range(filtered_iocs) <=>
               \/ HasPriorityExtension(url)
               \/ 10 * score > 4 * One
               \/ PatternIpAddress(Lower(url))

\* a record with a score of exactly 0.4, no such extension and no embedded IP
\* address, removed by the filter
C25_Witness ==
    \E r \in JustFiltered :
        /\ 10 * heap[r].enrichment.suspicion_score = 4 * One
        /\ ~HasPriorityExtension(heap[r].value)
        /\ ~PatternIpAddress(Lower(heap[r].value))
        /\ r \notin Range(filtered_iocs)

\* the stage that has just run
LastStage == IF trace = <<>> THEN "" ELSE trace[Len(trace)]

\* the keys of the URL path
UrlPathKeys == {"suspicion_score", "is_suspicious", "suspicious_indicators", "ml_classification"}

\* C26: the two enrichment paths are exclusive by type: enrich_ip_iocs leaves
\* every URL record unchanged, filter_suspicious_urls and classify_url_iocs keep
\* every IP record and leave all its fields unchanged, and no IP record carries
\* suspicion_score or ml_classification.
C26_PathsExclusiveByType ==
    /\ LastStage = "ENRICH_IP" =>
           \A r \in Range(pre.list) :
               pre.heap[r].type = "url" => heap[r] = pre.heap[r]
    /\ LastStage = "FILTER_URLS" =>
           \A r \in Range(pre.list) :
               pre.heap[r].type = "ip" => r \in Range(filtered_iocs) /\ heap[r] = pre.heap[r]
    /\ LastStage = "CLASSIFY_URLS" =>
           \A r \in Range(pre.list) :
               pre.heap[r].type = "ip" => r \in Range(classified_iocs) /\ heap[r] = pre.heap[r]
    /\ \A r \in DOMAIN heap :
           heap[r].type = "ip" =>
               DOMAIN Get(heap[r], "enrichment", EmptyDict) \cap UrlPathKeys = {}

\* after the three stages: an enriched IP record next to a URL record that was
\* scored and classified
C26_Witness ==
    /\ LastStage = "CLASSIFY_URLS"
    /\ \E r \in Range(classified_iocs) :
          /\ heap[r].type = "ip"
          /\ Has(heap[r], "enrichment")
          /\ Has(heap[r].enrichment, "classification")
    /\ \E r \in Range(classified_iocs) :
          /\ heap[r].type = "url"
          /\ UrlPathKeys \subseteq DOMAIN heap[r].enrichment
          /\ ~Has(heap[r].enrichment, "classification")

-----------------------------------------------------------------------------
(* The stages after normalization applied to lists with records of several sources *)

MaxStageLen == 3

\* records of both types, two of them with a second record of the same value and
\* type from another source
StageRecords ==
    { Normalized(IpA, "ip", "blocklist"),
      Normalized(IpA, "ip", "spamhaus"),
      Normalized(UrlMalware, "url", "digitalside"),
      Normalized(UrlMalware, "url", "spamhaus"),
      Normalized(UrlDocs, "url", "digitalside") }

InitStages ==
    /\ pc = "DEDUPE"
    /\ clock = 0
    /\ raw_iocs = <<>>
    /\ ingestion_stats = EmptyDict
    /\ heap \in UNION { [1..n -> StageRecords] : n \in 0..MaxStageLen }
    /\ normalized_iocs = [i \in 1..Len(heap) |-> i]
    /\ deduplicated_iocs = <<>>
    /\ enriched_iocs = <<>>
    /\ filtered_iocs = <<>>
    /\ classified_iocs = <<>>
    /\ result = EmptyDict
    /\ disk = EmptyDisk
    /\ trace = SubSeq(StageOrder, 1, 2)
    /\ pre = [heap |-> heap, list |-> normalized_iocs]
    /\ retained_ioc = EmptyDict
    /\ pending = {}

NextStages ==
    \/ Deduplicate
    \/ EnrichIp
    \/ FilterUrls
    \/ ClassifyUrls

SpecStages == InitStages /\ [][NextStages]_vars

-----------------------------------------------------------------------------
(* Claims about the stages of a run *)

\* the fields of a record no stage after normalization writes
IdentityFields == {"value", "type", "id", "source"}

\* C24: after normalization the value, type and id of a record never change:
\* deduplication with its merge, IP enrichment, URL filtering and URL
\* classification leave them, and the primary source of the record, as they were.
C24_IdentityImmutable ==
    [][\A r \in DOMAIN heap \cap DOMAIN heap' :
           \A field \in IdentityFields :
               /\ Has(heap'[r], field)
               /\ heap'[r][field] = heap[r][field]]_vars

\* the four stages have acted: a record merged from two sources, an IP
\* record enriched, a URL record scored and classified
C24_Witness ==
    /\ pc = "PERSIST"
    /\ \E r \in Range(classified_iocs) :
          /\ Get(heap[r], "duplicate_count", 1) >= 2
          /\ Len(Get(heap[r], "sources", <<>>)) >= 2
    /\ \E r \in Range(classified_iocs) :
          /\ heap[r].type = "ip"
          /\ Has(heap[r], "enrichment")
    /\ \E r \in Range(classified_iocs) :
          /\ heap[r].type = "url"
          /\ Has(heap[r], "enrichment")
          /\ Has(heap[r].enrichment, "suspicion_score")
          /\ Has(heap[r].enrichment, "ml_classification")

-----------------------------------------------------------------------------
(* enrichment/deduplicate.py: the pass by normalized value *)

\* text.rstrip(chars)
RECURSIVE RStrip(_, _)
RStrip(text, chars) ==
    IF text # <<>> /\ text[Len(text)] \in chars
    THEN RStrip(SubSeq(text, 1, Len(text) - 1), chars)
    ELSE text

\* text.lstrip(chars)
RECURSIVE LStrip(_, _)
LStrip(text, chars) ==
    IF text # <<>> /\ text[1] \in chars
    THEN LStrip(SubSeq(text, 2, Len(text)), chars)
    ELSE text

\* the characters str.strip() removes that the values of the model hold
Whitespace == {" ", "\t", "\n", "\r"}

\* text.split('?')[0]
BeforeQuery(text) ==
    LET marks == {i \in DOMAIN text : text[i] = "?"}
    IN IF marks = {} THEN text
       ELSE SubSeq(text, 1, (CHOOSE i \in marks : \A j \in marks : i <= j) - 1)

normalize_ioc_value(value, ioc_type) ==
    IF ioc_type = "url"
    THEN LET normalized == RStrip(Lower(value), {"/"})
         IN IF \E i \in DOMAIN normalized : normalized[i] = "?"
            THEN BeforeQuery(normalized)
            ELSE normalized
    ELSE IF ioc_type = "ip" THEN RStrip(LStrip(value, Whitespace), Whitespace)
    ELSE value

\* the key of deduplicate_by_normalized_value, f"{normalized_value}:{ioc['type']}"
normalized_key(ioc) == <<normalize_ioc_value(ioc.value, ioc.type), ioc.type>>

\* the for loop of deduplicate_by_normalized_value over the references iocs[i..]
RECURSIVE by_value_loop(_, _, _, _, _)
by_value_loop(h, iocs, i, normalized_map, deduplicated) ==
    IF i > Len(iocs) THEN [heap |-> h, out |-> deduplicated]
    ELSE LET ioc == iocs[i]
             key == normalized_key(h[ioc])
         IN IF key \notin DOMAIN normalized_map
            THEN by_value_loop(h, iocs, i + 1, (key :> ioc) @@ normalized_map,
                               Append(deduplicated, ioc))
            ELSE LET existing_ioc == normalized_map[key]
                 IN by_value_loop(
                        [h EXCEPT ![existing_ioc] =
                             merge_duplicate_metadata(h[existing_ioc], h[ioc])],
                        iocs, i + 1, normalized_map, deduplicated)

\* deduplicate_by_normalized_value(iocs)
deduplicate_by_normalized_value(h, iocs) ==
    by_value_loop(h, iocs, 1, EmptyDict, <<>>)

MaxByValueLen == 2

\* a URL, the same URL in capitals, with trailing slashes, with a query string,
\* with both, and another URL
ByValueUrls ==
    {<<"h", "t", "t", "p", ":", "/", "/", "f", "i", "l", "e", "s", ".", "e", "x", "a", "m", "p", "l", "e", "/", "a">>,
     <<"H", "T", "T", "P", ":", "/", "/", "F", "i", "l", "e", "s", ".", "E", "x", "a", "m", "p", "l", "e", "/", "A">>,
     <<"h", "t", "t", "p", ":", "/", "/", "f", "i", "l", "e", "s", ".", "e", "x", "a", "m", "p", "l", "e", "/", "a", "/">>,
     <<"h", "t", "t", "p", ":", "/", "/", "f", "i", "l", "e", "s", ".", "e", "x", "a", "m", "p", "l", "e", "/", "a", "/", "/">>,
     <<"h", "t", "t", "p", ":", "/", "/", "f", "i", "l", "e", "s", ".", "e", "x", "a", "m", "p", "l", "e", "/", "a", "?", "i", "d", "=", "7">>,
     <<"h", "t", "t", "p", ":", "/", "/", "f", "i", "l", "e", "s", ".", "e", "x", "a", "m", "p", "l", "e", "/", "a", "/", "?", "i", "d", "=", "7">>,
     <<"h", "t", "t", "p", ":", "/", "/", "f", "i", "l", "e", "s", ".", "e", "x", "a", "m", "p", "l", "e", "/", "b">>}

\* an address, the same address with whitespace around it, and another address
ByValueAddresses == {IpA, <<" ">> \o IpA \o <<" ">>, <<"\t">> \o IpA \o <<"\n">>, IpPrivate}

ByValueRecords ==
    { Normalized(value, "url", "digitalside") : value \in ByValueUrls }
    \cup { Normalized(value, "ip", "blocklist") : value \in ByValueAddresses }

InitByValue ==
    /\ pc = "DEDUPE"
    /\ clock = 0
    /\ raw_iocs = <<>>
    /\ ingestion_stats = EmptyDict
    /\ heap \in UNION { [1..n -> ByValueRecords] : n \in 0..MaxByValueLen }
    /\ normalized_iocs = [i \in 1..Len(heap) |-> i]
    /\ deduplicated_iocs = <<>>
    /\ enriched_iocs = <<>>
    /\ filtered_iocs = <<>>
    /\ classified_iocs = <<>>
    /\ result = EmptyDict
    /\ disk = EmptyDisk
    /\ trace = SubSeq(StageOrder, 1, 2)
    /\ pre = [heap |-> heap, list |-> normalized_iocs]
    /\ retained_ioc = EmptyDict
    /\ pending = {}

\* deduplicated = deduplicate_by_normalized_value(iocs)
DeduplicateByNormalizedValue ==
    /\ pc = "DEDUPE"
    /\ LET r == deduplicate_by_normalized_value(heap, normalized_iocs)
       IN /\ heap' = r.heap
          /\ deduplicated_iocs' = r.out
    /\ pre' = Snapshot(normalized_iocs)
    /\ trace' = Append(trace, "DEDUPE")
    /\ pc' = "ENRICH_IP"
    /\ UNCHANGED <<clock, raw_iocs, normalized_iocs, mergeVars, stageVars, ingestion_stats,
                   result, disk>>

NextByValue == DeduplicateByNormalizedValue

SpecByValue == InitByValue /\ [][NextByValue]_vars

\* the value without the variation the pass is to ignore: a URL without its
\* query string, trailing slashes and capitals, an address without the
\* whitespace around it
WithoutVariation(value, ioc_type) ==
    IF ioc_type = "url" THEN RStrip(BeforeQuery(Lower(value)), {"/"})
    ELSE IF ioc_type = "ip" THEN RStrip(LStrip(value, Whitespace), Whitespace)
    ELSE value

\* C27: deduplicate_by_normalized_value collapses into one record any two URL
\* records whose values differ only in letter case, trailing slashes or query
\* string and any two IP records whose values differ only in surrounding
\* whitespace, and normalize_ioc_value is idempotent.
C27_NearDuplicatesCollapsed ==
    trace # <<>> /\ trace[Len(trace)] = "DEDUPE" =>
        /\ \A i, j \in DOMAIN deduplicated_iocs :
               LET a == heap[deduplicated_iocs[i]]
                   b == heap[deduplicated_iocs[j]]
               IN /\ a.type = b.type
                  /\ WithoutVariation(a.value, a.type) = WithoutVariation(b.value, b.type)
                  => i = j
        /\ \A r \in Range(pre.list) :
               LET ioc == pre.heap[r]
                   once == normalize_ioc_value(ioc.value, ioc.type)
               IN normalize_ioc_value(once, ioc.type) = once

\* the signals that add to the score in calculate_url_suspicion(url)
FiredSignals(url) ==
    LET url_lower == Lower(url)
        parsed == urlparse(url)
        domain == Lower(parsed.netloc)
        path == Lower(parsed.path)
    IN {<<"extension">> : i \in {j \in DOMAIN SUSPICIOUS_EXTENSIONS :
                                    Contains(url_lower, SUSPICIOUS_EXTENSIONS[j])}}
       \cup (IF PatternIpAddress(url_lower) THEN {<<"pattern", "ip_address">>} ELSE {})
       \cup (IF PatternSuspiciousTld(url_lower) THEN {<<"pattern", "suspicious_tld">>} ELSE {})
       \cup (IF PatternUrlShortener(url_lower) THEN {<<"pattern", "url_shortener">>} ELSE {})
       \cup (IF PatternSuspiciousKeywords(url_lower)
             THEN {<<"pattern", "suspicious_keywords">>} ELSE {})
       \cup (IF Len(domain) > 30 /\ \E i \in 1..Len(domain) : domain[i] \in Digits
             THEN {<<"long_domain">>} ELSE {})
       \cup (IF IsIpDomain(domain) THEN {<<"ip_domain">>} ELSE {})
       \cup (IF PortRaises(parsed.netloc) THEN {<<"malformed_url">>}
             ELSE (IF Port(parsed.netloc) \in SuspiciousPorts
                   THEN {<<"suspicious_port">>} ELSE {})
                  \cup (IF Len(url) > 200 THEN {<<"long_url">>} ELSE {})
                  \cup (IF \/ Contains(path, <<"/", "a", "d", "m", "i", "n">>)
                           \/ Contains(path, <<"/", "w", "p", "-", "a", "d", "m", "i", "n">>)
                           \/ Contains(path, <<"/", "u", "p", "l", "o", "a", "d">>)
                        THEN {<<"admin_upload_path">>} ELSE {}))

\* the signal a tag of get_suspicious_indicators stands for
SignalOfTag(tag) ==
    IF tag[1] = "suspicious_extension" THEN <<"extension">>
    ELSE IF tag[1] = "pattern" THEN tag
    ELSE <<tag[1]>>

\* C28: get_suspicious_indicators emits a tag for exactly the signals that fired
\* in calculate_url_suspicion: every signal that added to the score has a tag in
\* the list, and no tag stands for a signal that added nothing.
C28_TagsMatchSignals ==
    \A r \in Scored :
        {SignalOfTag(tag) : tag \in Range(heap[r].enrichment.suspicious_indicators)}
            = FiredSignals(heap[r].value)

-----------------------------------------------------------------------------
(* Claims about what a run stores and reports *)

\* C29: whenever run_pipeline returns success:false, data/processed_iocs.json is
\* the same as before the run: a run that reports a persistence failure has not
\* replaced the indicator set stored before.
C29_FailedRunKeepsArtifact ==
    [][(Has(result', "success") /\ ~result'.success) => disk'.main = disk.main]_vars

\* the sum of the values of a dict of counts
RECURSIVE SumValues(_)
SumValues(counts) ==
    IF DOMAIN counts = {} THEN 0
    ELSE LET key == CHOOSE k \in DOMAIN counts : TRUE
         IN counts[key] + SumValues([k \in DOMAIN counts \ {key} |-> counts[k]])

\* the run has returned success:true
RunSucceeded == Has(result, "success") /\ result.success

\* C30: in the statistics of every successful run the stage counts never grow
\* along the pipeline, final_iocs <= deduplicated_iocs <= normalized_iocs <=
\* raw_iocs, and raw_iocs is the sum of the per-source counts in ingestion_stats.
C30_StageCountsMonotone ==
    RunSucceeded =>
        LET stats == result.statistics
        IN /\ stats.final_iocs <= stats.deduplicated_iocs
           /\ stats.deduplicated_iocs <= stats.normalized_iocs
           /\ stats.normalized_iocs <= stats.raw_iocs
           /\ stats.raw_iocs = SumValues(stats.ingestion_stats)
           /\ DOMAIN stats.ingestion_stats = Range(Feeds)

\* a successful run in which deduplication and the URL filter each removed a
\* record and one feed failed
C30_Witness ==
    /\ RunSucceeded
    /\ result.statistics.final_iocs < result.statistics.deduplicated_iocs
    /\ result.statistics.deduplicated_iocs < result.statistics.normalized_iocs
    /\ \E feed_name \in DOMAIN result.statistics.ingestion_stats :
          result.statistics.ingestion_stats[feed_name] = 0
    /\ result.statistics.raw_iocs >= 3

====
